---------------------------- MODULE Spec2Model ----------------------------
(***************************************************************************)
(* Vanishing-point search of QuinnJack/OpenSourceSearch:                   *)
(*   public/pyscript/globustvp/core.py          globustvp                  *)
(*   public/pyscript/globustvp/solver_utils.py  generate_bin, check_eig,   *)
(*                                              recover_vp,                *)
(*                                              find_peak_intervals        *)
(*   public/pyscript/globustvp/sdp_solver.py    solve_sdp                  *)
(*   public/pyscript/globustvp/geometry.py      normalize_lines, ...       *)
(*   public/pyscript/globustvp-worker.py        process_image_sync         *)
(*                                                                         *)
(* Real numbers are fixed-point integers: a length or a cosine x is the    *)
(* integer x * SCALE, a product of two of them is at SCALE * SCALE.        *)
(* numpy arrays are functions over 0 .. n-1 (the source's 0-based          *)
(* indices), Python lists are sequences.                                   *)
(***************************************************************************)
EXTENDS Integers, Sequences, FiniteSets, TLC

(***************************************************************************)
(* Bounds of the model.                                                    *)
(***************************************************************************)
\* Lines handed to a direct call of globustvp: 0 .. MaxLines.
MaxLines == 5
\* Largest "iteration" budget a direct caller passes.
MaxIter == 4
\* Segments the line detector may report to the worker: 0 .. MaxDetected.
MaxDetected == 11

(***************************************************************************)
(* Fixed-point arithmetic.                                                 *)
(***************************************************************************)
SCALE == 100 * 100
SCALE2 == SCALE * SCALE

\* F applied to the value of e.  Operators below take values (bound
\* variables, state variables, literals) as arguments; an intermediate
\* result is given a name with Bind before it is used.
Bind(e, F(_)) == CHOOSE r \in {F(x) : x \in {e}} : TRUE

Abs(x) == IF x < 0 THEN -x ELSE x

Max2(a, b) == IF a >= b THEN a ELSE b

Min2(a, b) == IF a <= b THEN a ELSE b

\* a / b rounded to the nearest integer (b # 0).
RDiv(a, b) == (2 * (IF b < 0 THEN -a ELSE a) + Abs(b)) \div (2 * Abs(b))

\* Newton's iteration for the integer square root of n > 0, from x at
\* least the root: it decreases until it reaches the root's integer part.
RECURSIVE SqrtIter(_, _)
SqrtIter(n, x) ==
    Bind((x + n \div x) \div 2, LAMBDA y : IF y >= x THEN x ELSE SqrtIter(n, y))

\* The square root of n >= 0, rounded to the nearest integer.
ISqrt(n) ==
    IF n <= 0 THEN 0
    ELSE Bind(SqrtIter(n, Max2(SCALE, n \div SCALE + 1)),
              LAMBDA r : IF n - r * r > r THEN r + 1 ELSE r)

Vec(x, y, z) == <<x, y, z>>

Dot(a, b) == a[1] * b[1] + a[2] * b[2] + a[3] * b[3]

\* np.cross of two raw integer vectors.
Cross(a, b) ==
    <<a[2] * b[3] - a[3] * b[2],
      a[3] * b[1] - a[1] * b[3],
      a[1] * b[2] - a[2] * b[1]>>

\* np.cross of two fixed-point vectors, again at SCALE.
CrossFx(a, b) ==
    <<RDiv(a[2] * b[3] - a[3] * b[2], SCALE),
      RDiv(a[3] * b[1] - a[1] * b[3], SCALE),
      RDiv(a[1] * b[2] - a[2] * b[1], SCALE)>>

Neg(v) == <<-v[1], -v[2], -v[3]>>

\* np.linalg.norm of a fixed-point vector, at SCALE.
Norm(v) == Bind(Dot(v, v), LAMBDA n : ISqrt(n))

\* v / np.linalg.norm(v) for a fixed-point vector.  A zero vector divides
\* by zero in numpy and yields NaN components without raising: NaNVec.
NaN == 0 - 2000000000

NaNVec == <<NaN, NaN, NaN>>

IsNaNVec(v) == v[1] = NaN

Normalized(v) ==
    Bind(Norm(v),
         LAMBDA n : IF n = 0 THEN NaNVec
                    ELSE <<RDiv(v[1] * SCALE, n), RDiv(v[2] * SCALE, n),
                           RDiv(v[3] * SCALE, n)>>)

(***************************************************************************)
(* numpy index helpers.                                                    *)
(***************************************************************************)
ArrLen(a) == Cardinality(DOMAIN a)

\* The function f as an explicit table of its values.
Tab(f) == f @@ f

\* np.arange(n)
Arange(n) == Tab([k \in 0 .. n - 1 |-> k])

\* np.ones(n, dtype=bool)
Ones(n) == Tab([i \in 0 .. n - 1 |-> TRUE])

\* The ascending array of the members of a finite set of naturals.
SortedArr(set) ==
    Bind(set, LAMBDA S :
        Tab([k \in 0 .. Cardinality(S) - 1 |->
                CHOOSE i \in S : Cardinality({j \in S : j < i}) = k]))

\* np.where(mask)[0]
Where(mask) == Bind(mask, LAMBDA m : SortedArr({i \in DOMAIN m : m[i]}))

\* The members of an index array or list.
Elems(arr) == {arr[k] : k \in DOMAIN arr}

(***************************************************************************)
(* The image and its detected segments (process_image_sync's input).       *)
(* A segment is <<x1, y1, x2, y2>> in pixels.                              *)
(***************************************************************************)
ImageWidth == 100
ImageHeight == 80

\* What the line detector can report, in its order; the worker sees a
\* prefix of it.  Horizontal, vertical and radial segments (three
\* orthogonal ground-truth directions seen by a camera aligned with
\* them), two segments shorter than 30 px, and one oblique outlier.
DetectedSegments ==
    << <<60, 50, 90, 80>>,
       <<10, 20, 60, 20>>,
       <<20, 10, 20, 70>>,
       <<60, 30, 90, 0>>,
       <<40, 50, 10, 80>>,
       <<5, 5, 15, 5>>,
       <<10, 60, 70, 60>>,
       <<80, 5, 80, 75>>,
       <<30, 40, 0, 40>>,
       <<65, 70, 65, 20>>,
       <<20, 70, 90, 70>>,
       <<56, 48, 74, 72>>,
       <<10, 10, 50, 30>>,
       <<35, 5, 35, 45>>,
       <<12, 12, 12, 30>>,
       <<70, 40, 100, 40>> >>

\* lines_2D[lengths >= min_len]: the subsequence of segments at least
\* min_len long.  length >= 30 iff dx^2 + dy^2 >= 900 on pixel integers.
min_len == 30

SegLen2(l) == (l[3] - l[1]) * (l[3] - l[1]) + (l[4] - l[2]) * (l[4] - l[2])

FilterShort(segs) == SelectSeq(segs, LAMBDA l : SegLen2(l) >= min_len * min_len)

\* The first k detected segments.
Detected(k) == SubSeq(DetectedSegments, 1, k)

\* A Python list or (N, 4) array as a 0-based array.
AsArr(seq) == Bind(seq, LAMBDA l : Tab([i \in 0 .. Len(l) - 1 |-> l[i + 1]]))

(***************************************************************************)
(* geometry.py                                                             *)
(***************************************************************************)
\* The worker's guessed intrinsics K: f = 0.8 * max(width, height),
\* principal point at the image centre.
GuessK(width, height) ==
    [f |-> (8 * Max2(width, height)) \div 10, cx |-> width \div 2, cy |-> height \div 2]

\* normalize_lines, one segment: both endpoints through K^-1, dehomogenized.
normalize_line(K, l) ==
    <<RDiv((l[1] - K.cx) * SCALE, K.f), RDiv((l[2] - K.cy) * SCALE, K.f),
      RDiv((l[3] - K.cx) * SCALE, K.f), RDiv((l[4] - K.cy) * SCALE, K.f)>>

normalize_lines(K, lines_2D) ==
    Bind(lines_2D, LAMBDA lines : Tab([i \in DOMAIN lines |-> normalize_line(K, lines[i])]))

\* compute_backprojection_normals, one segment: the cross product of the
\* homogeneous endpoints divided by its norm (NaN when the norm is zero).
backprojection_normal(l) ==
    Bind(CrossFx(<<l[1], l[2], SCALE>>, <<l[3], l[4], SCALE>>), LAMBDA n : Normalized(n))

compute_backprojection_normals(lines_2D_norm) ==
    Bind(lines_2D_norm,
         LAMBDA lines : Tab([i \in DOMAIN lines |-> backprojection_normal(lines[i])]))

(***************************************************************************)
(* solver_utils.py: generate_bin                                           *)
(***************************************************************************)
\* tan(j * 1.8 degrees) * 1000 for j = 0 .. 49, entry j + 1.
TanTab ==
    <<0, 31, 63, 95, 126, 158, 191, 224, 257, 291,
      325, 360, 396, 433, 471, 510, 550, 591, 635, 680,
      727, 776, 827, 882, 939, 1000, 1065, 1134, 1209, 1289,
      1376, 1471, 1576, 1691, 1819, 1963, 2125, 2311, 2526, 2778,
      3078, 3442, 3895, 4474, 5242, 6314, 7916, 10579, 15895, 31821>>

\* tan(m * 1.8 degrees) * 1000 for m in -49 .. 49.
TanAt(m) == IF m >= 0 THEN TanTab[m + 1] ELSE -TanTab[1 - m]

\* arctan(dy / dx) + pi/2 <= b * (pi / H), for dx # 0 and 1 <= b < H,
\* where H divides 100: dy / dx <= tan(b * pi / H - pi / 2).
ShiftedAtMost(dx, dy, b, H) ==
    IF dx > 0 THEN dy * 1000 <= TanAt(b * (100 \div H) - 50) * dx
    ELSE dy * 1000 >= TanAt(b * (100 \div H) - 50) * dx

\* np.ceil(directions_shifted / resolution) for dx # 0: the first b with
\* shifted <= b * resolution; every smaller b fails the test and every
\* larger one passes it.
first_bin(dx, dy, H) == 1 + Cardinality({b \in 1 .. H - 1 : ~ShiftedAtMost(dx, dy, b, H)})

\* bin_ids[i]: np.clip(np.ceil(directions_shifted / resolution), 1, H) - 1.
\* dy / 0 is +inf, -inf or nan: arctan gives pi/2, -pi/2, and nan is set
\* to pi/2; the shifted direction is then pi, 0 and pi.
bin_id(l, H) ==
    IF l[3] - l[1] = 0 THEN (IF l[4] - l[2] < 0 THEN 0 ELSE H - 1)
    ELSE first_bin(l[3] - l[1], l[4] - l[2], H) - 1

\* bin_ids as the set of pairs <<i, bin_ids[i]>>.
bin_ids(lines, H) ==
    Bind(lines, LAMBDA arr : {<<i, bin_id(arr[i], H)>> : i \in DOMAIN arr})

\* dir_cell[b]: the line indices appended to bin b, in ascending order.
dir_cell(ids, b) == SortedArr({p[1] : p \in {q \in ids : q[2] = b}})

\* dir_histogram[b]
dir_histogram(ids, b) == Cardinality({q \in ids : q[2] = b})

\* A variant of max_count: the smallest count of an occupied bin.
least_count(ids) ==
    IF ids = {} THEN 0
    ELSE Bind({dir_histogram(ids, q[2]) : q \in ids},
              LAMBDA counts : CHOOSE m \in counts : \A k \in counts : m <= k)

\* The largest count of dir_histogram.
max_count(ids) ==
    IF ids = {} THEN 0
    ELSE Bind({dir_histogram(ids, q[2]) : q \in ids},
              LAMBDA counts : CHOOSE m \in counts : \A k \in counts : k <= m)

\* The values sorted_bin_indices[-1] can take: np.argsort is not stable,
\* so among bins of equal maximal count any one may come last.
peak_ids1(ids, H) ==
    Bind(max_count(ids),
         LAMBDA m : IF m = 0 THEN 0 .. H - 1
                    ELSE {q[2] : q \in {r \in ids : dir_histogram(ids, r[2]) = m}})

\* The lists generate_bin can return.
generate_bin(lines, H) ==
    Bind(bin_ids(lines, H), LAMBDA ids : {dir_cell(ids, b) : b \in peak_ids1(ids, H)})

(***************************************************************************)
(* solver_utils.py: check_eig, recover_vp.                                 *)
(* The solver's X is kept as what the search reads of it: for each of the  *)
(* two variables the two largest eigenvalues of its 3x3 VP block (at       *)
(* EigScale), and the top right-singular vector of the first VP block.     *)
(***************************************************************************)
EigScale == 10 * 100

\* One pass flag per variable: largest / second > threshold, the ratio
\* being inf when second <= 1e-12.
check_eig(W, threshold) ==
    Tab([i \in 1 .. 2 |-> W.eig[i][2] <= 0 \/ W.eig[i][1] > threshold * W.eig[i][2]])

\* S[0] * Vt[0] of the first VP block.
recover_vp(W) ==
    <<RDiv(W.vt0[1] * W.eig[1][1], EigScale),
      RDiv(W.vt0[2] * W.eig[1][1], EigScale),
      RDiv(W.vt0[3] * W.eig[1][1], EigScale)>>

(***************************************************************************)
(* sdp_solver.py: solve_sdp                                                *)
(***************************************************************************)
Statuses == {"optimal", "optimal_inaccurate", "infeasible", "raised"}

\* A variant of Acceptable that rejects an inaccurate optimum.
only_optimal(status) == status = "optimal"

Acceptable(status) == status \in {"optimal", "optimal_inaccurate"}

\* solvers_to_try for the requested solver.
solvers_to_try(requested) ==
    IF requested = "SCS" THEN <<"SCS", "CLARABEL">>
    ELSE IF requested = "CLARABEL" THEN <<"CLARABEL">>
    ELSE IF requested = "MOSEK" THEN <<"SCS", "CLARABEL">>
    ELSE <<"SCS", "CLARABEL">>

\* The loop over solvers_to_try from position i: the backends attempted,
\* in order, and whether one of them was acceptable.  outcome[b] is what
\* backend b does when it is run on this problem.
RECURSIVE solve_loop(_, _, _, _)
solve_loop(solvers, outcome, i, attempted) ==
    IF i > Len(solvers) THEN [attempted |-> attempted, success |-> FALSE]
    ELSE IF Acceptable(outcome[solvers[i]])
         THEN [attempted |-> Append(attempted, solvers[i]), success |-> TRUE]
         ELSE solve_loop(solvers, outcome, i + 1, Append(attempted, solvers[i]))

\* solve_sdp: raises at once when size_x exceeds C's size, else runs the
\* chain and raises when no backend was acceptable.
solve_sdp(C_shape, size_x, requested, outcome) ==
    IF size_x > C_shape
    THEN [attempted |-> <<>>, success |-> FALSE]
    ELSE solve_loop(solvers_to_try(requested), outcome, 1, <<>>)

(***************************************************************************)
(* solver_utils.py: axang2rotm, _angle_mask_vectorized,                    *)
(* find_peak_intervals                                                     *)
(***************************************************************************)
\* sin(k degrees) * SCALE for k = 0 .. 90, entry k + 1.
SinTab ==
    <<0, 175, 349, 523, 698, 872, 1045, 1219, 1392, 1564,
      1736, 1908, 2079, 2250, 2419, 2588, 2756, 2924, 3090, 3256,
      3420, 3584, 3746, 3907, 4067, 4226, 4384, 4540, 4695, 4848,
      5000, 5150, 5299, 5446, 5592, 5736, 5878, 6018, 6157, 6293,
      6428, 6561, 6691, 6820, 6947, 7071, 7193, 7314, 7431, 7547,
      7660, 7771, 7880, 7986, 8090, 8192, 8290, 8387, 8480, 8572,
      8660, 8746, 8829, 8910, 8988, 9063, 9135, 9205, 9272, 9336,
      9397, 9455, 9511, 9563, 9613, 9659, 9703, 9744, 9781, 9816,
      9848, 9877, 9903, 9925, 9945, 9962, 9976, 9986, 9994, 9998,
      10000>>

SinDeg(k) == SinTab[k + 1]

CosDeg(k) == SinTab[91 - k]

\* A product of two fixed-point numbers, at SCALE.
MulFx(a, b) == RDiv(a * b, SCALE)

\* R @ v for a 3x3 fixed-point matrix (a tuple of rows).
MatVec(R, v) ==
    <<RDiv(Dot(R[1], v), SCALE), RDiv(Dot(R[2], v), SCALE), RDiv(Dot(R[3], v), SCALE)>>

\* Rodrigues' formula for the unit axis <<x, y, z>>, c and s the cosine and
\* the sine of the angle and C == 1 - c.
rodrigues(x, y, z, c, s, C) ==
    << <<c + MulFx(MulFx(x, x), C), MulFx(MulFx(x, y), C) - MulFx(z, s),
         MulFx(MulFx(x, z), C) + MulFx(y, s)>>,
       <<MulFx(MulFx(y, x), C) + MulFx(z, s), c + MulFx(MulFx(y, y), C),
         MulFx(MulFx(y, z), C) - MulFx(x, s)>>,
       <<MulFx(MulFx(z, x), C) - MulFx(y, s), MulFx(MulFx(z, y), C) + MulFx(x, s),
         c + MulFx(MulFx(z, z), C)>> >>

\* Rodrigues' rotation matrix about axis by angle_deg degrees.
axang2rotm(axis, angle_deg) ==
    Bind(Normalized(axis),
         LAMBDA a : rodrigues(a[1], a[2], a[3], CosDeg(angle_deg), SinDeg(angle_deg),
                              SCALE - CosDeg(angle_deg)))

\* sin(0.5 degrees) * 10^8: |angle - 90| <= 0.5 iff |cos| <= sin(0.5).
SinHalfDeg8 == 872654

\* norms = np.linalg.norm(normals, axis=1); the rotation does not change
\* it, so one table serves every angle of a find_peak_intervals call.
line_norms(normals) == Tab([i \in DOMAIN normals |-> Norm(normals[i])])

\* One line of _angle_mask_vectorized: the normal is valid (norm above
\* epsilon) and within 0.5 degrees of orthogonal to n1_rot or to n2_rot.
angle_mask(normal, norm, n1_rot, n2_rot) ==
    /\ norm > 0
    /\ \/ Abs(RDiv(Dot(normal, n1_rot) * 10, norm)) * 1000 <= SinHalfDeg8
       \/ Abs(RDiv(Dot(normal, n2_rot) * 10, norm)) * 1000 <= SinHalfDeg8

\* The inliers of the two rotated normals: the supporting line indices.
inliers_of(normals, norms, n1_rot, n2_rot) ==
    {i \in DOMAIN normals : angle_mask(normals[i], norms[i], n1_rot, n2_rot)}

\* inliers for one rotation angle.
peak_inliers(d, n1_base, normals, norms, angle_deg) ==
    Bind(axang2rotm(d, angle_deg), LAMBDA R :
        Bind(MatVec(R, n1_base), LAMBDA n1 :
            Bind(Normalized(n1), LAMBDA n1_rot :
                Bind(CrossFx(d, n1_rot), LAMBDA n2 :
                    Bind(Normalized(n2), LAMBDA n2_rot :
                        inliers_of(normals, norms, n1_rot, n2_rot))))))

\* The second row of the Householder reflector built from the unit vector
\* d, w being d plus or minus the first basis vector and den == 1 + |d[1]|.
householder_row2(d, w, den) ==
    <<0 - RDiv(d[2] * w[1], den), SCALE - RDiv(d[2] * w[2], den), 0 - RDiv(d[2] * w[3], den)>>

\* basis[:, 0] of scipy's null_space(d.reshape(1, 3)): a unit vector
\* orthogonal to d, the second row of the Householder reflector that the
\* SVD of the 1x3 matrix builds from d.
null_space_n1(d) ==
    Bind(householder_row2(d, <<d[1] + (IF d[1] >= 0 THEN SCALE ELSE -SCALE), d[2], d[3]>>,
                          SCALE + Abs(d[1])),
         LAMBDA row : Normalized(row))

num_bins == 90

\* np.argmax(bin_counts) over bin_indices, a set of pairs <<angle,
\* inliers>>: the first angle with the largest count.
peak_of(bin_indices) ==
    CHOOSE e \in bin_indices :
        \A o \in bin_indices :
            \/ Cardinality(o[2]) < Cardinality(e[2])
            \/ Cardinality(o[2]) = Cardinality(e[2]) /\ o[1] >= e[1]

\* The scan of the num_bins rotation angles about the unit vector d.
peak_scan(d, n1_base, normals, norms) ==
    Bind({<<a, peak_inliers(d, n1_base, normals, norms, a)>> : a \in 0 .. num_bins - 1},
         LAMBDA bin_indices : SortedArr(peak_of(bin_indices)[2]))

\* find_peak_intervals: bin_indices[np.argmax(bin_counts)] as an ascending
\* index array.
find_peak_intervals(d0, normals) ==
    Bind(Normalized(d0), LAMBDA d :
        Bind(null_space_n1(d), LAMBDA n1_base :
            Bind(line_norms(normals), LAMBDA norms :
                peak_scan(d, n1_base, normals, norms))))

(***************************************************************************)
(* core.py: the triad step (lines 208-217).                                *)
(***************************************************************************)
\* np.linalg.det of a 3x3 fixed-point matrix, at SCALE * SCALE.
Det2(M) == Bind(CrossFx(M[2], M[3]), LAMBDA k : Dot(M[1], k))

\* A variant of sign_correct that leaves the triad as it is.
uncorrected(M) == M

\* est_vps[0] = -est_vps[0] when the determinant is negative.
sign_correct(M) == IF Det2(M) < 0 THEN <<Neg(M[1]), M[2], M[3]>> ELSE M

\* A row of the cofactor matrix of M, over the determinant dS (at SCALE).
cofactor_row(a, b, dS) ==
    Bind(CrossFx(a, b),
         LAMBDA k : <<RDiv(k[1] * SCALE, dS), RDiv(k[2] * SCALE, dS), RDiv(k[3] * SCALE, dS)>>)

\* The inverse transpose of M: its cofactor matrix over its determinant.
InvT(M) ==
    Bind(RDiv(Det2(M), SCALE),
         LAMBDA dS : <<cofactor_row(M[2], M[3], dS), cofactor_row(M[3], M[1], dS),
                       cofactor_row(M[1], M[2], dS)>>)

\* (M + N) / 2, entry by entry.
Mean(M, N) ==
    <<<<RDiv(M[1][1] + N[1][1], 2), RDiv(M[1][2] + N[1][2], 2), RDiv(M[1][3] + N[1][3], 2)>>,
      <<RDiv(M[2][1] + N[2][1], 2), RDiv(M[2][2] + N[2][2], 2), RDiv(M[2][3] + N[2][3], 2)>>,
      <<RDiv(M[3][1] + N[3][1], 2), RDiv(M[3][2] + N[3][2], 2), RDiv(M[3][3] + N[3][3], 2)>> >>

\* Iterations of the Newton scheme that computes U @ Vt.
PolarIters == 5

\* U @ Vt for U, _, Vt = np.linalg.svd(M): the orthogonal polar factor of
\* M, computed by Newton's iteration X <- (X + X^-T) / 2.
RECURSIVE PolarIter(_, _)
PolarIter(M, k) ==
    IF k = 0 \/ RDiv(Det2(M), SCALE) = 0 THEN M
    ELSE Bind(InvT(M), LAMBDA N :
             Bind(Mean(M, N), LAMBDA M1 :
                 Bind(k - 1, LAMBDA k1 : PolarIter(M1, k1))))

svd_project(M) == Bind(M, LAMBDA M0 : PolarIter(M0, PolarIters))

\* est_vps @ est_vps.T, at SCALE * SCALE.
Gram(M) == Tab([i \in 1 .. 3 |-> Tab([j \in 1 .. 3 |-> Dot(M[i], M[j])])])

\* np.allclose(M @ M.T, np.eye(3), atol=1e-3): every entry within
\* atol + rtol * |eye entry| of the identity, rtol = 1e-5.
allclose_eye(M) ==
    Bind(Gram(M), LAMBDA G :
        \A i \in 1 .. 3 : \A j \in 1 .. 3 :
            Abs(G[i][j] - (IF i = j THEN SCALE2 ELSE 0))
                <= SCALE2 \div 1000 + (IF i = j THEN SCALE2 ELSE 0) \div 100000)

(***************************************************************************)
(* Inputs of the model.                                                    *)
(***************************************************************************)
\* Program constants (globustvp-worker.py's param dict, core.py's default).
c_worker == 300
sample_line_num_worker == 4
eigen_threshold_worker == 1
eigen_threshold_default == 9
histogram_len_worker == 100
max_iter_default == 50
vanishing_point_num == 3
min_lines == 10

\* |dot| above this replaces the third candidate (1e-3, at SCALE * SCALE).
Ortho3Tol == SCALE2 \div 1000

\* The param dict the worker builds for n lines.
WorkerParam(n) ==
    [line_num |-> n, c |-> c_worker, sample_line_num |-> sample_line_num_worker,
     is_fast_solver |-> TRUE, eigen_threshold |-> eigen_threshold_worker,
     solver |-> "SCS", histogram_len |-> histogram_len_worker,
     iteration |-> max_iter_default]

\* The param dicts of direct calls: the worker's with no iteration budget
\* and with a bounded one, and on MaxLines lines each field varied in turn.
DirectParams(n) ==
    LET base == [WorkerParam(n) EXCEPT !.iteration = MaxIter]
    IN  {[base EXCEPT !.iteration = k] : k \in {0, MaxIter}}
        \cup IF n < MaxLines THEN {}
             ELSE {[base EXCEPT !.is_fast_solver = FALSE],
                   [base EXCEPT !.sample_line_num = 2],
                   [base EXCEPT !.eigen_threshold = eigen_threshold_default],
                   [base EXCEPT !.solver = "CLARABEL"],
                   [base EXCEPT !.solver = "MOSEK"],
                   [base EXCEPT !.c = 5],
                   [base EXCEPT !.histogram_len = 4]}

\* Unit directions the solver's top singular vector Vt[0] is drawn from:
\* the three ground-truth directions, one within c of orthogonal to the
\* first, one oblique, one within 1e-3 of orthogonal to the first two.
Directions ==
    {<<SCALE, 0, 0>>, <<0, SCALE, 0>>, <<0, 0, SCALE>>,
     <<200, 9998, 0>>, <<6000, 8000, 0>>, <<8, 0, SCALE>>}

\* The two largest eigenvalues of the two VP blocks (their trace is 1):
\* rank one, dominant by exactly 9, the second block degenerate, both
\* degenerate.
EigBlocks ==
    {<< <<1000, 0>>, <<1000, 0>> >>, << <<900, 100>>, <<900, 100>> >>,
     << <<1000, 0>>, <<500, 500>> >>, << <<500, 500>>, <<500, 500>> >>}

\* What an acceptable solve can return: a rank-one solution along each
\* direction, and each pair of blocks along the first direction.
SolverOutputs ==
    {[vt0 |-> d, eig |-> << <<EigScale, 0>>, <<EigScale, 0>> >>] : d \in Directions}
        \cup {[vt0 |-> <<SCALE, 0, 0>>, eig |-> e] : e \in EigBlocks}

\* The scene a call works on: the first n long segments, normalized with
\* the guessed intrinsics as the worker normalizes them.
SceneK == GuessK(ImageWidth, ImageHeight)

SceneLines(n) == normalize_lines(SceneK, AsArr(SubSeq(FilterShort(DetectedSegments), 1, n)))

SceneNormals(n) == compute_backprojection_normals(SceneLines(n))

Backends == {"SCS", "CLARABEL"}

\* The empty list, also standing for largest_bin_idxes = None (the code
\* reads it only under is_fast_solver, where it is never None).
EmptyArr == SortedArr({})

(***************************************************************************)
(* State.                                                                  *)
(***************************************************************************)
VARIABLES
    host,               \* "none", "direct" or "worker": who called globustvp
    all_2D_lines,       \* globustvp's arguments
    para_lines,
    param,
    est_vps,            \* globustvp's locals
    est_corrs,
    line_id_pool,
    reverse_pool,
    largest_bin_idxes,
    iter_count,
    sample_ids,
    C_shape,
    solve_result,       \* what the last solve_sdp call did
    solves,             \* solve_sdp calls made in the current iteration
    pc,                 \* globustvp's position
    ret,                \* globustvp's return value
    wpc,                \* process_image_sync's position
    lines_2D,           \* the worker's filtered segments
    wret,               \* the JSON the worker returns
    proxy_hint,         \* date-worker.py: window.__CORS_PROXY_ORIGIN
    initialized,        \* date-worker.py: _initialized
    find_date,          \* date-worker.py: _find_date
    installs,           \* micropip.install invocations so far
    calls,              \* the analyze_url invocations, in order of invocation
    worker,             \* date-main.py: worker (FALSE for None)
    pending_requests,   \* date-main.py: pending_requests
    tasks,              \* date-main.py: the event loop's tasks that are ready to run
    bootstrap,          \* date-main.py: _bootstrap_worker's position
    requests,           \* the request events dispatched so far
    responses,          \* the response events emitted so far
    replay              \* whose turn it is of two invocations of globustvp, and the other one

search_vars == <<est_vps, est_corrs, line_id_pool, reverse_pool>>

input_vars == <<host, all_2D_lines, para_lines, param, largest_bin_idxes>>

worker_vars == <<wpc, lines_2D, wret>>

\* The state of the vanishing-point worker and of the search it runs.
vp_vars == <<host, all_2D_lines, para_lines, param, est_vps, est_corrs, line_id_pool,
             reverse_pool, largest_bin_idxes, iter_count, sample_ids, C_shape,
             solve_result, solves, pc, ret, wpc, lines_2D, wret, replay>>

\* The state of the htmldate worker and of its bridge.
date_vars == <<proxy_hint, initialized, find_date, installs, calls, worker,
               pending_requests, tasks, bootstrap, requests, responses, replay>>

vars == <<vp_vars, date_vars>>

NoSolve == [attempted |-> <<>>, statuses |-> <<>>, success |-> FALSE]

NoRet == [success |-> FALSE, vps |-> <<>>, corrs |-> <<>>]

\* No invocation has been made.
NoReplay == [turn |-> "none", X |-> <<>>, other |-> <<>>, from |-> <<>>, entry |-> <<>>]

\* No image is being processed and globustvp is not running.
VpIdle ==
    /\ host = "none"
    /\ all_2D_lines = <<>>
    /\ para_lines = <<>>
    /\ param = WorkerParam(0)
    /\ est_vps = <<>>
    /\ est_corrs = <<>>
    /\ line_id_pool = <<>>
    /\ reverse_pool = <<>>
    /\ largest_bin_idxes = EmptyArr
    /\ iter_count = 0
    /\ sample_ids = {}
    /\ C_shape = 0
    /\ solve_result = NoSolve
    /\ solves = 0
    /\ pc = "idle"
    /\ ret = NoRet
    /\ wpc = "idle"
    /\ lines_2D = <<>>
    /\ wret = [status |-> "none"]
    /\ replay = NoReplay

\* The htmldate modules are not loaded.
DateIdle ==
    /\ proxy_hint = "None"
    /\ initialized = FALSE
    /\ find_date = "None"
    /\ installs = 0
    /\ calls = <<>>
    /\ worker = FALSE
    /\ pending_requests = <<>>
    /\ tasks = <<>>
    /\ bootstrap = "none"
    /\ requests = <<>>
    /\ responses = <<>>
    /\ replay = NoReplay

Init == VpIdle /\ DateIdle

(***************************************************************************)
(* core.py: globustvp                                                      *)
(***************************************************************************)
\* A variant of reset that keeps the pool of the search it abandons.
reset_keeps_pool(line_num) ==
    [est_vps |-> <<>>, est_corrs |-> <<>>,
     line_id_pool |-> IF ArrLen(line_id_pool) = line_num THEN line_id_pool
                      ELSE Ones(line_num),
     reverse_pool |-> Arange(line_num)]

\* A variant of reset that forgets to clear the correspondences.
reset_keeps_corrs(line_num) ==
    [est_vps |-> <<>>, est_corrs |-> est_corrs, line_id_pool |-> Ones(line_num),
     reverse_pool |-> Arange(line_num)]

\* reset(): no VP, no correspondence, every line active, identity map.
reset(line_num) ==
    [est_vps |-> <<>>, est_corrs |-> <<>>, line_id_pool |-> Ones(line_num),
     reverse_pool |-> Arange(line_num)]

\* Lines 13-23: the state on entry of the loop.
Enter(who, lines, normals, p) ==
    /\ host' = who
    /\ all_2D_lines' = lines
    /\ para_lines' = normals
    /\ param' = p
    /\ est_vps' = reset(p.line_num).est_vps
    /\ est_corrs' = reset(p.line_num).est_corrs
    /\ line_id_pool' = reset(p.line_num).line_id_pool
    /\ reverse_pool' = reset(p.line_num).reverse_pool
    /\ IF p.is_fast_solver
       THEN largest_bin_idxes' \in generate_bin(lines, p.histogram_len)
       ELSE largest_bin_idxes' = EmptyArr
    /\ iter_count' = 0
    /\ sample_ids' = {}
    /\ C_shape' = 0
    /\ solve_result' = NoSolve
    /\ solves' = 0
    /\ pc' = "loop"
    /\ ret' = NoRet

\* max_iter = param.get("iteration", 50)
max_iter == param.iteration

\* active_lines = para_lines[line_id_pool]: row k is the k-th line whose
\* mask entry is true.
masked(arr, mask) == Bind(Where(mask), LAMBDA ids : Tab([k \in DOMAIN ids |-> arr[ids[k]]]))

active_size == ArrLen(masked(para_lines, line_id_pool))

CallDirect ==
    /\ pc = "idle"
    /\ wpc = "idle"
    /\ \E n \in 0 .. MaxLines : \E p \in DirectParams(n) :
          \E lines \in {SceneLines(n)} :
              \E normals \in {compute_backprojection_normals(lines)} :
                  Enter("direct", lines, normals, p)
    /\ UNCHANGED worker_vars
    /\ UNCHANGED date_vars

\* Lines 26-29: the iteration budget is exceeded, the loop breaks and
\* line 223 returns the FAILED result.
LoopExit ==
    /\ pc = "loop"
    /\ iter_count + 1 > max_iter
    /\ iter_count' = iter_count + 1
    /\ pc' = "returned"
    /\ ret' = [success |-> FALSE, vps |-> est_vps, corrs |-> est_corrs]
    /\ solves' = 0
    /\ UNCHANGED <<input_vars, search_vars, sample_ids, C_shape, solve_result, worker_vars>>
    /\ UNCHANGED date_vars

\* A variant of min_active that is one too small.
two_active == 3 - 1

\* Line 35: the smallest active pool that is sampled.
min_active == 3

\* A variant of TooFewActive that goes on with the state it has.
TooFewActiveGoesOn ==
    /\ pc = "loop"
    /\ iter_count + 1 <= max_iter
    /\ active_size < min_active
    /\ iter_count' = iter_count + 1
    /\ solves' = 0
    /\ UNCHANGED <<input_vars, search_vars, pc, ret, sample_ids, C_shape, solve_result,
                   worker_vars>>
    /\ UNCHANGED date_vars

\* Lines 35-40: fewer than 3 active lines.
TooFewActive ==
    /\ pc = "loop"
    /\ iter_count + 1 <= max_iter
    /\ active_size < min_active
    /\ iter_count' = iter_count + 1
    /\ IF Len(est_vps) = vanishing_point_num
       THEN /\ pc' = "returned"
            /\ ret' = [success |-> TRUE, vps |-> est_vps, corrs |-> est_corrs]
            /\ UNCHANGED search_vars
       ELSE /\ est_vps' = reset(param.line_num).est_vps
            /\ est_corrs' = reset(param.line_num).est_corrs
            /\ line_id_pool' = reset(param.line_num).line_id_pool
            /\ reverse_pool' = reset(param.line_num).reverse_pool
            /\ UNCHANGED <<pc, ret>>
    /\ solves' = 0
    /\ UNCHANGED <<input_vars, sample_ids, C_shape, solve_result, worker_vars>>
    /\ UNCHANGED date_vars

\* candidates: the histogram cluster's members that are active.
candidates == {idx \in Elems(largest_bin_idxes) : line_id_pool[idx]}

\* A variant of use_cluster that never takes the cluster.
cluster_unused == Len(est_vps) < 0

\* Line 46 and 55: the first VP is sampled from the cluster.
use_cluster ==
    /\ Len(est_vps) = 0
    /\ param.is_fast_solver
    /\ ArrLen(largest_bin_idxes) > 0
    /\ Cardinality(candidates) >= param.sample_line_num

\* np.random.choice(population, size, replace=False): any size-subset.
choice(population, size) == {smp \in SUBSET population : Cardinality(smp) = size}

\* The size asked of np.random.choice on lines 91, 97, 99 and 102.
draw_size ==
    IF use_cluster THEN Min2(Cardinality(candidates), param.sample_line_num)
    ELSE IF Len(est_vps) = 0 THEN param.sample_line_num
    ELSE Min2(param.sample_line_num, active_size)

draw_population == IF use_cluster THEN candidates ELSE 0 .. active_size - 1

\* Lines 42-124: a sample is drawn and the cost matrices are built.
Sample ==
    /\ pc = "loop"
    /\ iter_count + 1 <= max_iter
    /\ active_size >= min_active
    /\ \E size \in {draw_size} : \E population \in {draw_population} :
          /\ size <= Cardinality(population)
          /\ sample_ids' \in choice(population, size)
    /\ iter_count' = iter_count + 1
    /\ C_shape' = 3 * Cardinality(sample_ids') + 3
    /\ solves' = 0
    /\ pc' = "solve"
    /\ UNCHANGED <<input_vars, search_vars, solve_result, ret, worker_vars>>
    /\ UNCHANGED date_vars

\* Lines 97 and 99: np.random.choice raises ValueError when asked for
\* more distinct items than the population holds; nothing catches it
\* inside globustvp.
SampleRaises ==
    /\ pc = "loop"
    /\ iter_count + 1 <= max_iter
    /\ active_size >= min_active
    /\ \E size \in {draw_size} : size > Cardinality(draw_population)
    /\ iter_count' = iter_count + 1
    /\ solves' = 0
    /\ pc' = "raised"
    /\ UNCHANGED <<input_vars, search_vars, sample_ids, C_shape, solve_result, ret,
                   worker_vars>>
    /\ UNCHANGED date_vars

\* Line 129: solve_sdp runs its backend chain on the sample's problem.
SolveSdp ==
    /\ pc = "solve"
    /\ \E outcome \in [Backends -> Statuses] :
          \E real_sample_size \in {Cardinality(sample_ids)} :
              \E r \in {solve_sdp(C_shape, 3 * real_sample_size + 3, param.solver, outcome)} :
                  solve_result' =
                      [attempted |-> r.attempted,
                       statuses |-> [i \in 1 .. Len(r.attempted) |-> outcome[r.attempted[i]]],
                       success |-> r.success]
    /\ solves' = solves + 1
    /\ sample_ids' = {}
    /\ pc' = "solved"
    /\ UNCHANGED <<input_vars, search_vars, iter_count, C_shape, ret, worker_vars>>
    /\ UNCHANGED date_vars

\* Lines 130-132: solve_sdp raised; the sample is abandoned.
SdpFailed ==
    /\ pc = "solved"
    /\ ~solve_result.success
    /\ solve_result' = NoSolve
    /\ pc' = "loop"
    /\ UNCHANGED <<input_vars, search_vars, iter_count, sample_ids, C_shape, solves, ret,
                   worker_vars>>
    /\ UNCHANGED date_vars

\* Line 129: solve_sdp returned X.
SdpReturned ==
    /\ pc = "solved"
    /\ solve_result.success
    /\ solve_result' = NoSolve
    /\ pc' = "check"
    /\ UNCHANGED <<input_vars, search_vars, iter_count, sample_ids, C_shape, solves, ret,
                   worker_vars>>
    /\ UNCHANGED date_vars

\* A variant of RankCheckFailed that starts the search again.
RankCheckResets ==
    /\ pc = "check"
    /\ \E X \in SolverOutputs :
          \E i \in 1 .. 2 : ~check_eig(X, param.eigen_threshold)[i]
    /\ est_vps' = reset(param.line_num).est_vps
    /\ est_corrs' = reset(param.line_num).est_corrs
    /\ line_id_pool' = reset(param.line_num).line_id_pool
    /\ reverse_pool' = reset(param.line_num).reverse_pool
    /\ pc' = "loop"
    /\ UNCHANGED <<input_vars, iter_count, sample_ids, C_shape, solve_result, solves, ret,
                   worker_vars>>
    /\ UNCHANGED date_vars

\* Lines 135-136: the rank check fails for one of the two VP blocks.
RankCheckFailed ==
    /\ pc = "check"
    /\ \E X \in SolverOutputs :
          \E i \in 1 .. 2 : ~check_eig(X, param.eigen_threshold)[i]
    /\ pc' = "loop"
    /\ UNCHANGED <<input_vars, search_vars, iter_count, sample_ids, C_shape, solve_result,
                   solves, ret, worker_vars>>
    /\ UNCHANGED date_vars

\* A variant of orthogonality_fails that lets every second VP pass.
never_fails(vp1, est_vp, c) == FALSE

\* Lines 144-151: abs(90 - angle) > tol with angle = arccos(clip(dot)) and
\* tol = 90 - arccos(c), both in degrees; for 0 <= c <= 1 this is
\* |clip(dot)| > c, arccos being decreasing and odd about 90 degrees.
orthogonality_fails(vp1, est_vp, c) ==
    Bind(Dot(vp1, est_vp),
         LAMBDA dot : Bind(Max2(0 - SCALE2, Min2(SCALE2, dot)),
                           LAMBDA clipped : Abs(clipped) > c * SCALE))

\* A variant of third_vp that keeps every candidate.
third_unchecked(vps, est_vp) == est_vp

\* Lines 154-160: the third candidate, or the renormalized cross product
\* of the first two when a dot product exceeds 1e-3.
third_vp(vps, est_vp) ==
    IF \/ Abs(Dot(vps[1], est_vp)) > Ortho3Tol
       \/ Abs(Dot(vps[2], est_vp)) > Ortho3Tol
    THEN Bind(CrossFx(vps[1], vps[2]), LAMBDA k : Normalized(k))
    ELSE est_vp

\* Lines 175-177: the local indices of the active lines whose absolute
\* dot product with the VP is below c.
corr_local_idc(mask, est_vp, c) ==
    Bind(masked(para_lines, mask),
         LAMBDA all_lines_subset :
             {k \in DOMAIN all_lines_subset :
                 Abs(Dot(all_lines_subset[k], est_vp)) < c * SCALE})

\* A variant of original_ids_of that takes the local indices for the
\* original ones.
local_ids_of(rev, local_idc) == local_idc

\* Line 179: original_ids = reverse_pool[corr_local_idc]
original_ids_of(rev, local_idc) == {rev[k] : k \in local_idc}

\* Lines 185-189: line_id_pool = zeros; line_id_pool[peak] = True.
peak_pool(mask, peak_ids) == Tab([i \in DOMAIN mask |-> i \in peak_ids])

\* A variant of without that leaves the inliers active.
keep_inliers(mask, original_ids) == mask

\* Lines 196-198: line_id_pool[original_ids] = False.
without(mask, original_ids) == Tab([i \in DOMAIN mask |-> mask[i] /\ i \notin original_ids])

\* A variant of pool_after that never asks the pruner.
pool_never_pruned(mask, n_vps, est_vp, original_ids) == without(mask, original_ids)

\* Lines 181-198: the pool after the acceptance.
pool_after(mask, n_vps, est_vp, original_ids) ==
    IF param.is_fast_solver /\ n_vps = 1
    THEN Bind(find_peak_intervals(est_vp, para_lines),
              LAMBDA peak : Bind(peak_pool(mask, Elems(peak)),
                                 LAMBDA pruned : without(pruned, original_ids)))
    ELSE without(mask, original_ids)

\* A variant of reverse_after that keeps the map it had.
stale_reverse(mask) == reverse_pool

\* Line 201: reverse_pool = np.where(line_id_pool)[0]
reverse_after(mask) == Where(mask)

\* Lines 204-205: the correspondence vector.
corr_of(original_ids) ==
    Tab([i \in 0 .. param.line_num - 1 |-> IF i \in original_ids THEN 1 ELSE 0])

\* Lines 139-160: the candidate that is appended.
candidate_vp(vp) ==
    IF Len(est_vps) = 2 THEN third_vp(est_vps, vp) ELSE vp

passes_rank(X) == \A i \in 1 .. 2 : check_eig(X, param.eigen_threshold)[i]

\* The vectors recover_vp returns for the solutions that pass the rank
\* check.
recovered == {recover_vp(X) : X \in {Y \in SolverOutputs : passes_rank(Y)}}

\* A variant of OrthogonalityReset that only draws the next sample.
OrthogonalityResamples ==
    /\ pc = "check"
    /\ Len(est_vps) = 1
    /\ \E vp \in recovered : orthogonality_fails(est_vps[1], vp, param.c)
    /\ pc' = "loop"
    /\ UNCHANGED <<input_vars, search_vars, iter_count, sample_ids, C_shape,
                   solve_result, solves, ret, worker_vars>>
    /\ UNCHANGED date_vars

\* Lines 142-153: the second VP fails the orthogonality check; full reset.
OrthogonalityReset ==
    /\ pc = "check"
    /\ Len(est_vps) = 1
    /\ \E vp \in recovered : orthogonality_fails(est_vps[1], vp, param.c)
    /\ est_vps' = reset(param.line_num).est_vps
    /\ est_corrs' = reset(param.line_num).est_corrs
    /\ line_id_pool' = reset(param.line_num).line_id_pool
    /\ reverse_pool' = reset(param.line_num).reverse_pool
    /\ pc' = "loop"
    /\ UNCHANGED <<input_vars, iter_count, sample_ids, C_shape, solve_result, solves, ret,
                   worker_vars>>
    /\ UNCHANGED date_vars

\* Lines 162-206: the candidate is accepted: the VP and its
\* correspondence are appended, the pool loses the inliers (after the
\* pruner replaced it, for VP1 on the fast path) and the reverse map is
\* rebuilt.  The third VP goes on to the validation of the triad.
AcceptOf(vps) ==
    /\ pc = "check"
    /\ \E vp \in vps :
          /\ Len(est_vps) = 1 => ~orthogonality_fails(est_vps[1], vp, param.c)
          /\ \E est_vp \in {candidate_vp(vp)} :
             \E original_ids \in
                    {original_ids_of(reverse_pool,
                                     corr_local_idc(line_id_pool, est_vp, param.c))} :
             \E pool1 \in {pool_after(line_id_pool, Len(est_vps) + 1, est_vp, original_ids)} :
                 /\ est_vps' = Append(est_vps, est_vp)
                 /\ est_corrs' = Append(est_corrs, corr_of(original_ids))
                 /\ line_id_pool' = pool1
                 /\ reverse_pool' = reverse_after(pool1)
    /\ pc' = IF Len(est_vps') = vanishing_point_num THEN "validate" ELSE "loop"
    /\ UNCHANGED <<input_vars, iter_count, sample_ids, C_shape, solve_result, solves, ret,
                   worker_vars>>
    /\ UNCHANGED date_vars

Accept == AcceptOf(recovered)

\* Lines 208-221: the sign correction and the projection of the triad,
\* then success when it is orthonormal, else a reset.
Validate ==
    /\ pc = "validate"
    /\ \E triad \in {svd_project(sign_correct(est_vps))} :
          IF allclose_eye(triad)
          THEN /\ est_vps' = triad
               /\ pc' = "returned"
               /\ ret' = [success |-> TRUE, vps |-> triad, corrs |-> est_corrs]
               /\ UNCHANGED <<est_corrs, line_id_pool, reverse_pool>>
          ELSE /\ est_vps' = reset(param.line_num).est_vps
               /\ est_corrs' = reset(param.line_num).est_corrs
               /\ line_id_pool' = reset(param.line_num).line_id_pool
               /\ reverse_pool' = reset(param.line_num).reverse_pool
               /\ pc' = "loop"
               /\ UNCHANGED ret
    /\ UNCHANGED <<input_vars, iter_count, sample_ids, C_shape, solve_result, solves,
                   worker_vars>>
    /\ UNCHANGED date_vars

(***************************************************************************)
(* globustvp-worker.py: process_image_sync                                 *)
(***************************************************************************)
\* Lines 139-146: K @ vp, then the pixel point when |z| > 1e-5 and
\* "infinity" otherwise.
project(K, vp) ==
    Bind(<<K.f * vp[1] + K.cx * vp[3], K.f * vp[2] + K.cy * vp[3], vp[3]>>,
         LAMBDA vp_cam :
             IF Abs(vp_cam[3]) * 100000 > SCALE
             THEN [at |-> "point",
                   pt |-> <<RDiv(vp_cam[1], vp_cam[3]), RDiv(vp_cam[2], vp_cam[3])>>]
             ELSE [at |-> "infinity"])

vps_2d_of(K, vps) == Tab([k \in 1 .. Len(vps) |-> project(K, vps[k])])

\* The last (largest) member of a non-empty set of VP positions.
last_of(marking) == CHOOSE k \in marking : \A j \in marking : j <= k

\* Lines 152-159: every line starts at -1 and takes the index of each VP
\* whose vector marks it, in the order of the VPs: the last one stays.
line_associations(corrs, n) ==
    Tab([i \in 0 .. n - 1 |->
            Bind({k \in 1 .. Len(corrs) : corrs[k][i] > 0},
                 LAMBDA marking : IF marking = {} THEN -1 ELSE last_of(marking) - 1)])

\* What the three early stages can do with the host's string.
DecodeOutcomes == {"raises", "none", "image"}

\* Lines 22-37: base64 and image decoding.  b64decode raises on a
\* malformed string; imdecode returns None for bytes that are no image.
Decode ==
    /\ wpc = "idle"
    /\ pc = "idle"
    /\ \E outcome \in DecodeOutcomes :
          \/ /\ outcome = "raises"
             /\ wpc' = "raised"
             /\ UNCHANGED wret
          \/ /\ outcome = "none"
             /\ wpc' = "done"
             /\ wret' = [error |-> "Failed to decode image."]
          \/ /\ outcome = "image"
             /\ wpc' = "decoded"
             /\ UNCHANGED wret
    /\ UNCHANGED <<input_vars, search_vars, iter_count, sample_ids, C_shape, solve_result,
                   solves, pc, ret, lines_2D>>
    /\ UNCHANGED date_vars

\* Lines 39-65: the detector reports its first k segments and the short
\* ones are filtered out.
Detect ==
    /\ wpc = "decoded"
    /\ \E k \in 0 .. MaxDetected : lines_2D' = FilterShort(Detected(k))
    /\ wpc' = "filtered"
    /\ UNCHANGED <<input_vars, search_vars, iter_count, sample_ids, C_shape, solve_result,
                   solves, pc, ret, wret>>
    /\ UNCHANGED date_vars

\* A variant of too_few that lets min_lines - 1 lines through.
too_few_below(lines) == Len(lines) < min_lines - 1

\* Line 67: len(lines_2D) < 10
too_few(lines) == Len(lines) < min_lines

\* Lines 67-68: fewer than 10 lines are left.
NotEnoughLines ==
    /\ wpc = "filtered"
    /\ too_few(lines_2D)
    /\ wpc' = "done"
    /\ wret' = [error |-> "Not enough lines detected."]
    /\ UNCHANGED <<input_vars, search_vars, iter_count, sample_ids, C_shape, solve_result,
                   solves, pc, ret, lines_2D>>
    /\ UNCHANGED date_vars

\* Lines 70-128: intrinsics, normalization, normals, param, and the call
\* of globustvp.
Search ==
    /\ wpc = "filtered"
    /\ ~too_few(lines_2D)
    /\ \E K \in {GuessK(ImageWidth, ImageHeight)} :
          \E normalized_lines_N4 \in {normalize_lines(K, AsArr(lines_2D))} :
              \E normals \in {compute_backprojection_normals(normalized_lines_N4)} :
                  Enter("worker", normalized_lines_N4, normals, WorkerParam(Len(lines_2D)))
    /\ wpc' = "searching"
    /\ UNCHANGED <<lines_2D, wret>>
    /\ UNCHANGED date_vars

\* Lines 139-167: the JSON of a successful search.
success_json(K, lines, vps, corrs) ==
    [status |-> "success",
     lines |-> lines,
     vps_3d |-> vps,
     vps_2d |-> vps_2d_of(K, vps),
     associations |-> line_associations(corrs, Len(lines))]

\* A variant of result_json that reports the VPs whatever the outcome.
always_success_json(K, lines, r) == success_json(K, lines, r.vps, r.corrs)

\* Lines 130-169: the JSON for globustvp's (success, vps, corrs).
result_json(K, lines, r) ==
    IF r.success THEN success_json(K, lines, r.vps, r.corrs)
    ELSE [status |-> "failed", error |-> "Solver did not converge."]

\* Lines 130-169: the result of the search is returned as JSON.
Report ==
    /\ wpc = "searching"
    /\ pc = "returned"
    /\ wpc' = "done"
    /\ \E K \in {GuessK(ImageWidth, ImageHeight)} : wret' = result_json(K, lines_2D, ret)
    /\ UNCHANGED <<input_vars, search_vars, iter_count, sample_ids, C_shape, solve_result,
                   solves, pc, ret, lines_2D>>
    /\ UNCHANGED date_vars

\* Lines 171-174: an exception raised anywhere in the try block.
Caught ==
    /\ \/ wpc = "raised"
       \/ wpc = "searching" /\ pc = "raised"
    /\ wpc' = "done"
    /\ wret' = [status |-> "error", message |-> "str(e)"]
    /\ UNCHANGED <<input_vars, search_vars, iter_count, sample_ids, C_shape, solve_result,
                   solves, pc, ret, lines_2D>>
    /\ UNCHANGED date_vars

Next ==
    \/ CallDirect
    \/ LoopExit
    \/ TooFewActive
    \/ Sample
    \/ SampleRaises
    \/ SolveSdp
    \/ SdpFailed
    \/ SdpReturned
    \/ RankCheckFailed
    \/ OrthogonalityReset
    \/ Accept
    \/ Validate
    \/ Decode
    \/ Detect
    \/ NotEnoughLines
    \/ Search
    \/ Report
    \/ Caught

Spec == Init /\ [][Next]_vars

(***************************************************************************)
(* The search with a solver that returns the optimum of every sample.      *)
(* The objective (core.py lines 113-124, sdp_solver.py line 56) charges a  *)
(* sampled line its squared dot product with the VP, or c^2 as an outlier; *)
(* when the sampled lines share a scene direction the optimum is zero, at  *)
(* that direction and rank one.  For a sample that shares none the optimum *)
(* depends on the uncertainty weights: every solver output is allowed.     *)
(***************************************************************************)
\* The three orthogonal directions the scene's segments are drawn along.
GroundTruth == {<<SCALE, 0, 0>>, <<0, SCALE, 0>>, <<0, 0, SCALE>>}

\* The line with this normal was drawn along d.
drawn_along(normal, d) == Abs(Dot(normal, d)) < c_worker * SCALE

\* The scene directions every sampled line was drawn along.
shared_directions ==
    Bind(masked(para_lines, line_id_pool),
         LAMBDA active_lines :
             {d \in GroundTruth : \A k \in sample_ids : drawn_along(active_lines[k], d)})

\* Line 129 with that solver: the first backend ends optimal.
SolveOptimal ==
    /\ pc = "solve"
    /\ \E outcome \in {[b \in Backends |-> "optimal"]} :
          \E real_sample_size \in {Cardinality(sample_ids)} :
              \E r \in {solve_sdp(C_shape, 3 * real_sample_size + 3, param.solver, outcome)} :
                  solve_result' =
                      [attempted |-> r.attempted,
                       statuses |-> [i \in 1 .. Len(r.attempted) |-> outcome[r.attempted[i]]],
                       success |-> r.success]
    /\ solves' = solves + 1
    /\ pc' = "solved"
    /\ UNCHANGED <<input_vars, search_vars, iter_count, sample_ids, C_shape, ret,
                   worker_vars>>
    /\ UNCHANGED date_vars

\* Lines 135-136: only the solution of a sample without a shared direction
\* can fail the rank check.
RankCheckOptimal == RankCheckFailed /\ shared_directions = {}

\* Lines 142-153: the reset, for the optimum when the sample has one.
OrthogonalityResetOptimal ==
    /\ OrthogonalityReset
    /\ \E D \in {shared_directions} :
          D # {} => \E d \in D : orthogonality_fails(est_vps[1], d, param.c)

\* Lines 162-206: the acceptance, of the optimum when the sample has one.
AcceptOptimal ==
    /\ Accept
    /\ \E D \in {shared_directions} :
          D # {} => \E d \in D : est_vps'[Len(est_vps')] = candidate_vp(d)

OptimalNext ==
    \/ CallDirect
    \/ LoopExit
    \/ TooFewActive
    \/ Sample
    \/ SampleRaises
    \/ SolveOptimal
    \/ SdpReturned
    \/ RankCheckOptimal
    \/ OrthogonalityResetOptimal
    \/ AcceptOptimal
    \/ Validate
    \/ Decode
    \/ Detect
    \/ NotEnoughLines
    \/ Search
    \/ Report
    \/ Caught

OptimalSpec == Init /\ [][OptimalNext]_vars

(***************************************************************************)
(* geometry.py called by a program of its own, as the worker calls it on   *)
(* lines 107-128: compute_backprojection_normals on normalized segments,   *)
(* then globustvp on the normals, with nothing in between.                 *)
(***************************************************************************)
\* Normalized endpoint coordinates are multiples of SCALE / 2 up to this many.
MaxCoord == 1

NormalsPoints ==
    {<<x * (SCALE \div 2), y * (SCALE \div 2)>> : x \in -MaxCoord .. MaxCoord,
                                                y \in -MaxCoord .. MaxCoord}

\* The (1, 4) arrays of one normalized segment, coincident endpoints included.
NormalsInputs ==
    {AsArr(<<(<<p[1], p[2], q[1], q[2]>>)>>) : p \in NormalsPoints, q \in NormalsPoints}

NormalsInit ==
    /\ all_2D_lines \in NormalsInputs
    /\ host = "none"
    /\ para_lines = <<>>
    /\ param = WorkerParam(0)
    /\ est_vps = <<>>
    /\ est_corrs = <<>>
    /\ line_id_pool = <<>>
    /\ reverse_pool = <<>>
    /\ largest_bin_idxes = EmptyArr
    /\ iter_count = 0
    /\ sample_ids = {}
    /\ C_shape = 0
    /\ solve_result = NoSolve
    /\ solves = 0
    /\ pc = "idle"
    /\ ret = NoRet
    /\ wpc = "idle"
    /\ lines_2D = <<>>
    /\ wret = [status |-> "none"]
    /\ DateIdle

\* para_lines = compute_backprojection_normals(normalized_lines_N4)
ComputeNormals ==
    /\ pc = "idle"
    /\ ArrLen(para_lines) = 0
    /\ para_lines' = compute_backprojection_normals(all_2D_lines)
    /\ UNCHANGED <<host, all_2D_lines, param, search_vars, largest_bin_idxes, iter_count,
                   sample_ids, C_shape, solve_result, solves, pc, ret, worker_vars>>
    /\ UNCHANGED date_vars

\* globustvp(normalized_lines_N4, para_lines, uncertainty, param)
PassNormals ==
    /\ pc = "idle"
    /\ ArrLen(para_lines) > 0
    /\ \E lines \in {all_2D_lines} : \E normals \in {para_lines} :
           Enter("direct", lines, normals, WorkerParam(ArrLen(lines)))
    /\ UNCHANGED worker_vars
    /\ UNCHANGED date_vars

NormalsNext == ComputeNormals \/ PassNormals

NormalsSpec == NormalsInit /\ [][NormalsNext]_vars

(***************************************************************************)
(* solver_utils.py: generate_bin called on lines of one orientation.       *)
(***************************************************************************)
\* Lines in an array handed to generate_bin: 1 .. MaxBinLines.
MaxBinLines == 2

\* Undirected directions <<dx, dy>>: horizontal, vertical and three oblique.
Orientations == {<<1, 0>>, <<0, 1>>, <<1, 1>>, <<1, -1>>, <<2, 1>>}

\* Signed lengths: the sign says which endpoint is listed first.
Extents == {-2, -1, 1, 2}

\* The segment from the origin along o with signed length k.
along(o, k) == <<0, 0, k * o[1], k * o[2]>>

\* The arrays of 1 .. MaxBinLines lines that all have the orientation o.
SameOrientation(o) ==
    UNION {{AsArr([i \in 1 .. n |-> along(o, ks[i])]) : ks \in [1 .. n -> Extents]} :
           n \in 1 .. MaxBinLines}

BinInit ==
    /\ \E o \in Orientations : all_2D_lines \in SameOrientation(o)
    /\ \E H \in {histogram_len_worker, 4} :
           param = [WorkerParam(ArrLen(all_2D_lines)) EXCEPT !.histogram_len = H]
    /\ host = "none"
    /\ para_lines = <<>>
    /\ est_vps = <<>>
    /\ est_corrs = <<>>
    /\ line_id_pool = <<>>
    /\ reverse_pool = <<>>
    /\ largest_bin_idxes = EmptyArr
    /\ iter_count = 0
    /\ sample_ids = {}
    /\ C_shape = 0
    /\ solve_result = NoSolve
    /\ solves = 0
    /\ pc = "idle"
    /\ ret = NoRet
    /\ wpc = "idle"
    /\ lines_2D = <<>>
    /\ wret = [status |-> "none"]
    /\ DateIdle

\* largest_bin_idxes = generate_bin(all_2D_lines, param)
GenerateBin ==
    /\ pc = "idle"
    /\ largest_bin_idxes' \in generate_bin(all_2D_lines, param.histogram_len)
    /\ pc' = "binned"
    /\ UNCHANGED <<host, all_2D_lines, para_lines, param, search_vars, iter_count,
                   sample_ids, C_shape, solve_result, solves, ret, worker_vars>>
    /\ UNCHANGED date_vars

BinNext == GenerateBin

BinSpec == BinInit /\ [][BinNext]_vars

\* Lines of a histogram input: 0 .. MaxHistLines.
MaxHistLines == 3

\* Segments of every orientation and endpoint order, and a segment of
\* length zero.
HistSegments == {along(o, k) : o \in Orientations, k \in {-1, 1}} \cup {<<0, 0, 0, 0>>}

\* The arrays of 0 .. MaxHistLines segments.
HistInputs ==
    UNION {{AsArr(ls) : ls \in [1 .. n -> HistSegments]} : n \in 0 .. MaxHistLines}

HistInit ==
    /\ all_2D_lines \in HistInputs
    /\ \E H \in {histogram_len_worker, 4} :
           param = [WorkerParam(ArrLen(all_2D_lines)) EXCEPT !.histogram_len = H]
    /\ host = "none"
    /\ para_lines = <<>>
    /\ est_vps = <<>>
    /\ est_corrs = <<>>
    /\ line_id_pool = <<>>
    /\ reverse_pool = <<>>
    /\ largest_bin_idxes = EmptyArr
    /\ iter_count = 0
    /\ sample_ids = {}
    /\ C_shape = 0
    /\ solve_result = NoSolve
    /\ solves = 0
    /\ pc = "idle"
    /\ ret = NoRet
    /\ wpc = "idle"
    /\ lines_2D = <<>>
    /\ wret = [status |-> "none"]
    /\ DateIdle

HistSpec == HistInit /\ [][BinNext]_vars

(***************************************************************************)
(* date-worker.py.                                                         *)
(* A Python string is the sequence of its characters; a piece of a URL     *)
(* without a slash or a blank in it is kept as one character.  None or a   *)
(* value is a list of no or one element.                                   *)
(***************************************************************************)
\* analyze_url invocations made directly on the worker: 0 .. MaxCalls.
MaxCalls == 2

None == <<>>

Some(value) == <<value>>

\* text.rstrip(ch)
RECURSIVE rstrip(_, _)
rstrip(text, ch) ==
    IF Len(text) > 0 /\ text[Len(text)] = ch
    THEN rstrip(SubSeq(text, 1, Len(text) - 1), ch)
    ELSE text

\* text.lstrip() for blanks
RECURSIVE lstrip(_)
lstrip(text) ==
    IF Len(text) > 0 /\ text[1] = " " THEN lstrip(Tail(text)) ELSE text

\* text.strip()
strip(text) == lstrip(rstrip(text, " "))

DEFAULT_PROXY_ORIGINS ==
    << <<"https://cors-anywhere.com", "/">>,
       <<"https://cors.isomorphic-git.org", "/">>,
       <<"https://r.jina.ai", "/">> >>

\* window.__CORS_PROXY_ORIGIN: absent, empty, an origin of its own with
\* two trailing slashes, and the last default origin without its slash.
ProxyHints ==
    {None, Some(<<>>), Some(<<"https://proxy.example", "/", "/">>),
     Some(<<"https://r.jina.ai">>)}

\* Lines 49-51: proxy_sources
proxy_sources ==
    (IF proxy_hint # None /\ Len(proxy_hint[1]) > 0 THEN proxy_hint ELSE <<>>)
        \o DEFAULT_PROXY_ORIGINS

\* Lines 44-47: add(target)
add(urls, target) ==
    IF Len(target) > 0 /\ \A k \in 1 .. Len(urls) : urls[k] # target
    THEN Append(urls, target)
    ELSE urls

\* Lines 53-56: the loop over proxy_sources from position i.
RECURSIVE add_origins(_, _, _, _)
add_origins(sources, i, url, urls) ==
    IF i > Len(sources) THEN urls
    ELSE IF Len(sources[i]) = 0 THEN add_origins(sources, i + 1, url, urls)
    ELSE add_origins(sources, i + 1, url,
                     add(urls, rstrip(sources[i], "/") \o <<"/">> \o url))

\* _candidate_urls(url)
candidate_urls(url) == add_origins(proxy_sources, 1, url, <<>>)

\* _format_date(value)
format_date(value) ==
    IF value = None \/ Len(value[1]) = 0 THEN None
    ELSE IF Len(strip(value[1])) = 0 THEN None ELSE Some(strip(value[1]))

\* The URLs analyze_url is called with: a URL, the same with blanks around
\* it, blanks only, and the empty string.
Urls == {<<"https://a.example">>, <<" ", "https://a.example", " ">>, <<" ">>, <<>>}

\* What the two _find_date calls do with a page: one of them raises, or
\* they return <<default_date, original_date>>.
FindDateOutcomes ==
    {"raises", <<None, None>>, <<Some(<<"2024-05-01">>), Some(<<" ">>)>>}

\* The caller of an analyze_url invocation: the _run_request of date-main.py
\* that awaits it, with its request_id, or no such.
NoRequest == [number |-> 0, id |-> <<>>, queued |-> FALSE]

\* An analyze_url invocation that has not started to run.
NewCall(url, request) ==
    [url |-> url, request |-> request, pc |-> "called", candidates |-> <<>>,
     fetched |-> <<>>, errors |-> <<>>, result |-> [none |-> TRUE]]

\* Lines 75-76 and 104-106: _download_html raises, analyze_url returns
\* the error.
download_failed(call, errors) ==
    [call EXCEPT !.pc = "returned", !.errors = errors,
                 !.result = [url |-> strip(call.url),
                             error |-> <<"Unable to load", strip(call.url),
                                         IF errors = <<>> THEN <<"Unknown error">>
                                         ELSE errors>>]]

\* A variant of fetch_next that records no reason for the candidate that
\* failed.
fetch_next_unrecorded(call, errors) ==
    IF Len(call.fetched) < Len(call.candidates)
    THEN [call EXCEPT !.pc = "fetching",
                      !.fetched = Append(call.fetched,
                                         call.candidates[Len(call.fetched) + 1])]
    ELSE download_failed(call, errors)

\* Lines 66-68: the next candidate is fetched, if there is one.
fetch_next(call, errors) ==
    IF Len(call.fetched) < Len(call.candidates)
    THEN [call EXCEPT !.pc = "fetching", !.errors = errors,
                      !.fetched = Append(call.fetched,
                                         call.candidates[Len(call.fetched) + 1])]
    ELSE download_failed(call, errors)

\* Lines 95-103: analyze_url after _ensure_dependencies, up to the first
\* fetch.
after_ensure(call) ==
    IF Len(strip(call.url)) = 0
    THEN [call EXCEPT !.pc = "returned",
                      !.result = [url |-> call.url, error |-> "Missing URL"]]
    ELSE fetch_next([call EXCEPT !.candidates = candidate_urls(strip(call.url))], <<>>)

\* Lines 108-117: the dates are looked up and formatted.
dates_result(call, found) ==
    IF found = "raises"
    THEN [call EXCEPT !.pc = "returned",
                      !.result = [url |-> strip(call.url), error |-> "find_date"]]
    ELSE [call EXCEPT !.pc = "returned",
                      !.result = [url |-> strip(call.url),
                                  lastUpdate |-> format_date(found[1]),
                                  originalDate |-> format_date(found[2])]]

bridge_vars == <<worker, pending_requests, tasks, bootstrap, requests, responses>>

\* Lines 86-93 and 23-29: analyze_url starts to run and calls
\* _ensure_dependencies, which returns at once or invokes micropip.install
\* and awaits it.
StartCall ==
    /\ \E i \in 1 .. Len(calls) :
          /\ calls[i].pc = "called"
          /\ \A j \in 1 .. i - 1 : calls[j].pc # "called"
          /\ IF initialized
             THEN /\ calls' = [calls EXCEPT ![i] = after_ensure(calls[i])]
                  /\ UNCHANGED installs
             ELSE /\ calls' = [calls EXCEPT ![i].pc = "installing"]
                  /\ installs' = installs + 1
    /\ UNCHANGED <<proxy_hint, initialized, find_date, bridge_vars, vp_vars>>

\* Lines 29-33: micropip.install returns, htmldate is imported.
InstallReturns ==
    /\ \E i \in 1 .. Len(calls) :
          /\ calls[i].pc = "installing"
          /\ calls' = [calls EXCEPT ![i] = after_ensure(calls[i])]
    /\ find_date' = "find_date"
    /\ initialized' = TRUE
    /\ UNCHANGED <<proxy_hint, installs, bridge_vars, vp_vars>>

\* Line 29: micropip.install raises; nothing in analyze_url catches it.
InstallRaises ==
    /\ \E i \in 1 .. Len(calls) :
          /\ calls[i].pc = "installing"
          /\ calls' = [calls EXCEPT ![i].pc = "raised"]
    /\ UNCHANGED <<proxy_hint, initialized, find_date, installs, bridge_vars, vp_vars>>

\* Lines 68-71: fetch returns a response; an ok one is read.
FetchReturns ==
    /\ \E i \in 1 .. Len(calls) : \E ok \in BOOLEAN :
          /\ calls[i].pc = "fetching"
          /\ calls' = [calls EXCEPT ![i] =
                           IF ok THEN [calls[i] EXCEPT !.pc = "reading"]
                           ELSE fetch_next(calls[i], Append(calls[i].errors, "status"))]
    /\ UNCHANGED <<proxy_hint, initialized, find_date, installs, bridge_vars, vp_vars>>

\* Lines 68-73: fetch, or reading the body, raises.
FetchRaises ==
    /\ \E i \in 1 .. Len(calls) :
          /\ calls[i].pc \in {"fetching", "reading"}
          /\ calls' = [calls EXCEPT ![i] =
                           fetch_next(calls[i], Append(calls[i].errors, "exception"))]
    /\ UNCHANGED <<proxy_hint, initialized, find_date, installs, bridge_vars, vp_vars>>

\* Lines 70 and 108-117: the body is read and the dates are looked up.
TextReturns ==
    /\ \E i \in 1 .. Len(calls) : \E found \in FindDateOutcomes :
          /\ calls[i].pc = "reading"
          /\ calls' = [calls EXCEPT ![i] = dates_result(calls[i], found)]
    /\ UNCHANGED <<proxy_hint, initialized, find_date, installs, bridge_vars, vp_vars>>

\* analyze_url is called on the worker.
CallAnalyzeUrl ==
    /\ Len(calls) < MaxCalls
    /\ \E url \in Urls : calls' = Append(calls, NewCall(url, NoRequest))
    /\ UNCHANGED <<proxy_hint, initialized, find_date, installs, bridge_vars, vp_vars>>

DateWorkerInit ==
    /\ VpIdle
    /\ proxy_hint \in ProxyHints
    /\ initialized = FALSE
    /\ find_date = "None"
    /\ installs = 0
    /\ calls = <<>>
    /\ worker = FALSE
    /\ pending_requests = <<>>
    /\ tasks = <<>>
    /\ bootstrap = "none"
    /\ requests = <<>>
    /\ responses = <<>>

DateWorkerNext ==
    \/ CallAnalyzeUrl
    \/ StartCall
    \/ InstallReturns
    \/ InstallRaises
    \/ FetchReturns
    \/ FetchRaises
    \/ TextReturns

DateWorkerSpec == DateWorkerInit /\ [][DateWorkerNext]_vars

(***************************************************************************)
(* date-main.py.                                                           *)
(* tasks is the event loop's queue of ready tasks, run first in first out: *)
(* a task runs from where it stands to its next await.  Each request event *)
(* is numbered by its arrival; number and queued are not in the code and   *)
(* only tell which event a task, a call or a response comes from, and      *)
(* whether _flush_pending created the task.                                *)
(***************************************************************************)
\* Request events received by the bridge: 0 .. MaxRequests.
MaxRequests == 2

\* The detail of a request event: id and url, each None or a string.
Payloads ==
    {[id |-> Some(<<"a">>), url |-> Some(<<"https://a.example">>)],
     [id |-> Some(<<" ", "b", " ">>), url |-> Some(<<" ", "https://a.example">>)],
     [id |-> Some(<<" ">>), url |-> Some(<<"https://a.example">>)],
     [id |-> None, url |-> Some(<<"https://a.example">>)],
     [id |-> Some(<<"a">>), url |-> Some(<<>>)]}

\* Lines 78-79: str(value or "").strip()
cleaned(value) == IF value = None THEN <<>> ELSE strip(value[1])

Task(kind, request, url) == [kind |-> kind, request |-> request, url |-> url]

\* A flush that leaves out the first entry of the list.
flushed_but_first(pending) ==
    [k \in 1 .. Len(pending) - 1 |->
        Task("run", [pending[k + 1].request EXCEPT !.queued = TRUE], pending[k + 1].url)]

\* Lines 58-60: the tasks _flush_pending creates, in the order of the list.
flushed(pending) ==
    [k \in 1 .. Len(pending) |->
        Task("run", [pending[k].request EXCEPT !.queued = TRUE], pending[k].url)]

\* Lines 43-52: the detail of the response to a settled call.
response_detail(call) ==
    IF call.pc = "raised"
    THEN [error |-> "exception", url |-> call.url]
    ELSE call.result

worker_state == <<proxy_hint, initialized, find_date, installs>>

\* Lines 71-84: _handle_request on a request event.
HandleRequest ==
    /\ Len(requests) < MaxRequests
    /\ \E payload \in Payloads :
          /\ requests' = Append(requests, payload)
          /\ tasks' = IF Len(cleaned(payload.id)) = 0 \/ Len(cleaned(payload.url)) = 0
                      THEN tasks
                      ELSE Append(tasks,
                                  Task("run", [number |-> Len(requests) + 1,
                                               id |-> cleaned(payload.id),
                                               queued |-> FALSE],
                                       cleaned(payload.url)))
    /\ UNCHANGED <<worker, pending_requests, bootstrap, responses, calls,
                   worker_state, vp_vars>>

\* Lines 63-66: _bootstrap_worker runs up to its await of the worker.
Bootstrap ==
    /\ tasks # <<>>
    /\ Head(tasks).kind = "bootstrap"
    /\ tasks' = Tail(tasks)
    /\ bootstrap' = "awaiting"
    /\ UNCHANGED <<worker, pending_requests, requests, responses, calls,
                   worker_state, vp_vars>>

\* Line 66: the worker is there; _bootstrap_worker is ready to run again.
WorkerReady ==
    /\ bootstrap = "awaiting"
    /\ bootstrap' = "ready"
    /\ tasks' = Append(tasks, Task("assign", NoRequest, <<>>))
    /\ UNCHANGED <<worker, pending_requests, requests, responses, calls,
                   worker_state, vp_vars>>

\* Lines 66-68 and 56-60: worker is assigned and the pending requests are
\* flushed.
AssignWorker ==
    /\ tasks # <<>>
    /\ Head(tasks).kind = "assign"
    /\ worker' = TRUE
    /\ tasks' = Tail(tasks) \o flushed(pending_requests)
    /\ pending_requests' = <<>>
    /\ bootstrap' = "done"
    /\ UNCHANGED <<requests, responses, calls, worker_state, vp_vars>>

\* Lines 34-42: _run_request runs up to its return or to its await of
\* worker.analyze_url.
RunRequest ==
    /\ tasks # <<>>
    /\ Head(tasks).kind = "run"
    /\ tasks' = Tail(tasks)
    /\ IF ~worker
       THEN /\ pending_requests' = Append(pending_requests, Head(tasks))
            /\ UNCHANGED calls
       ELSE /\ calls' = Append(calls, NewCall(Head(tasks).url, Head(tasks).request))
            /\ UNCHANGED pending_requests
    /\ UNCHANGED <<worker, bootstrap, requests, responses, worker_state, vp_vars>>

\* Line 42: the call of worker.analyze_url has returned or raised; the
\* _run_request that awaits it is ready to run again.
CallSettles ==
    /\ \E i \in 1 .. Len(calls) :
          /\ calls[i].request # NoRequest
          /\ calls[i].pc \in {"returned", "raised"}
          /\ tasks' = Append(tasks, [kind |-> "respond", request |-> calls[i].request,
                                     detail |-> response_detail(calls[i])])
          /\ calls' = [calls EXCEPT ![i].pc = "settled"]
    /\ UNCHANGED <<worker, pending_requests, bootstrap, requests, responses,
                   worker_state, vp_vars>>

\* Lines 43-53: _run_request sets the id and emits the response.
Respond ==
    /\ tasks # <<>>
    /\ Head(tasks).kind = "respond"
    /\ tasks' = Tail(tasks)
    /\ responses' = Append(responses, [id |-> Head(tasks).request.id,
                                        number |-> Head(tasks).request.number,
                                        queued |-> Head(tasks).request.queued,
                                        detail |-> Head(tasks).detail])
    /\ UNCHANGED <<worker, pending_requests, bootstrap, requests, calls,
                   worker_state, vp_vars>>

\* Lines 93-97: the module has been loaded, in a page that sets no proxy
\* origin.
BridgeInit ==
    /\ VpIdle
    /\ proxy_hint = None
    /\ initialized = FALSE
    /\ find_date = "None"
    /\ installs = 0
    /\ calls = <<>>
    /\ worker = FALSE
    /\ pending_requests = <<>>
    /\ tasks = <<Task("bootstrap", NoRequest, <<>>)>>
    /\ bootstrap = "created"
    /\ requests = <<>>
    /\ responses = <<>>

BridgeNext ==
    \/ HandleRequest
    \/ Bootstrap
    \/ WorkerReady
    \/ AssignWorker
    \/ RunRequest
    \/ CallSettles
    \/ Respond
    \/ StartCall
    \/ InstallReturns
    \/ InstallRaises
    \/ FetchReturns
    \/ FetchRaises
    \/ TextReturns

BridgeSpec == BridgeInit /\ [][BridgeNext]_vars

(***************************************************************************)
(* core.py: globustvp invoked twice on the same arguments.  The two        *)
(* invocations are followed side by side: the variables hold the locals of *)
(* the one that takes the next step and replay.other those of the other.   *)
(* One leads by a step, on a sample, solver statuses and a solution X that *)
(* are free; the other follows on the same ones.  When both have returned, *)
(* globustvp is invoked once more where they ended.                        *)
(***************************************************************************)
\* globustvp's locals and its return value.
snapshot ==
    [est_vps |-> est_vps, est_corrs |-> est_corrs, line_id_pool |-> line_id_pool,
     reverse_pool |-> reverse_pool, largest_bin_idxes |-> largest_bin_idxes,
     iter_count |-> iter_count, sample_ids |-> sample_ids, C_shape |-> C_shape,
     solve_result |-> solve_result, solves |-> solves, pc |-> pc, ret |-> ret]

NoX == [vt0 |-> <<0, 0, 0>>, eig |-> << <<0, 0>>, <<0, 0>> >>]

\* Both invocations are at the same iteration and position.
in_step == pc = replay.other.pc /\ iter_count = replay.other.iter_count

\* The invocation that the variables hold takes the next step.
stepping ==
    \/ replay.turn = "lead" /\ in_step
    \/ replay.turn = "follow" /\ ~in_step

\* Lines 6-23: the first invocation.
CallFirst ==
    /\ pc = "idle"
    /\ replay.turn = "none"
    /\ \E n \in min_active .. MaxLines :
          \E p \in {[WorkerParam(n) EXCEPT !.iteration = MaxIter]} :
              \E lines \in {SceneLines(n)} :
                  \E normals \in {compute_backprojection_normals(lines)} :
                      Enter("direct", lines, normals, p)
    /\ UNCHANGED worker_vars
    /\ UNCHANGED date_vars

\* The solution X that solve_sdp returns to both invocations is drawn when
\* the rank check comes next; the second invocation has entered as the
\* first did.
Draw ==
    /\ \/ replay.turn = "none" /\ pc = "loop"
       \/ replay.turn = "follow" /\ in_step
    /\ pc \notin {"returned", "raised"}
    /\ \E X \in IF pc = "check" THEN SolverOutputs ELSE {NoX} :
          replay' = [turn |-> "lead", X |-> X, other |-> snapshot, from |-> snapshot,
                     entry |-> IF replay.turn = "none" THEN snapshot ELSE replay.entry]
    /\ UNCHANGED <<host, all_2D_lines, para_lines, param, est_vps, est_corrs, line_id_pool,
                   reverse_pool, largest_bin_idxes, iter_count, sample_ids, C_shape,
                   solve_result, solves, pc, ret, wpc, lines_2D, wret>>
    /\ UNCHANGED <<proxy_hint, initialized, find_date, installs, calls, worker,
                   pending_requests, tasks, bootstrap, requests, responses>>

\* The invocation that led by a step waits and the other takes its turn.
Switch ==
    /\ replay.turn = "lead"
    /\ ~in_step
    /\ est_vps' = replay.other.est_vps
    /\ est_corrs' = replay.other.est_corrs
    /\ line_id_pool' = replay.other.line_id_pool
    /\ reverse_pool' = replay.other.reverse_pool
    /\ largest_bin_idxes' = replay.other.largest_bin_idxes
    /\ iter_count' = replay.other.iter_count
    /\ sample_ids' = replay.other.sample_ids
    /\ C_shape' = replay.other.C_shape
    /\ solve_result' = replay.other.solve_result
    /\ solves' = replay.other.solves
    /\ pc' = replay.other.pc
    /\ ret' = replay.other.ret
    /\ replay' = [replay EXCEPT !.turn = "follow", !.other = snapshot]
    /\ UNCHANGED <<host, all_2D_lines, para_lines, param, wpc, lines_2D, wret>>
    /\ UNCHANGED <<proxy_hint, initialized, find_date, installs, calls, worker,
                   pending_requests, tasks, bootstrap, requests, responses>>

\* Lines 6-23: globustvp is invoked on the same arguments where the two
\* invocations ended.  np.argsort breaks a tie of generate_bin as it did.
CallAgain ==
    /\ pc \in {"returned", "raised"}
    /\ replay.turn = "follow"
    /\ in_step
    /\ Enter("direct", all_2D_lines, para_lines, param)
    /\ largest_bin_idxes' = replay.entry.largest_bin_idxes
    /\ replay' = [replay EXCEPT !.turn = "again"]
    /\ UNCHANGED worker_vars
    /\ UNCHANGED <<proxy_hint, initialized, find_date, installs, calls, worker,
                   pending_requests, tasks, bootstrap, requests, responses>>

LoopExitReplayed == stepping /\ LoopExit

TooFewActiveReplayed == stepping /\ TooFewActive

\* np.random.choice returns to the invocation that follows what it returned
\* to the one that led.
SampleReplayed ==
    /\ stepping
    /\ Sample
    /\ replay.turn = "follow" => sample_ids' = replay.other.sample_ids

SampleRaisesReplayed == stepping /\ SampleRaises

\* The backends end for the invocation that follows as they did for the one
\* that led.
SolveSdpReplayed ==
    /\ stepping
    /\ SolveSdp
    /\ replay.turn = "follow" => solve_result' = replay.other.solve_result

SdpFailedReplayed == stepping /\ SdpFailed

SdpReturnedReplayed == stepping /\ SdpReturned

RankCheckFailedReplayed ==
    /\ stepping
    /\ ~passes_rank(replay.X)
    /\ RankCheckFailed

OrthogonalityResetReplayed ==
    /\ stepping
    /\ pc = "check"
    /\ Len(est_vps) = 1
    /\ passes_rank(replay.X)
    /\ orthogonality_fails(est_vps[1], recover_vp(replay.X), param.c)
    /\ OrthogonalityReset

AcceptReplayed ==
    /\ stepping
    /\ pc = "check"
    /\ passes_rank(replay.X)
    /\ AcceptOf({recover_vp(replay.X)})

ValidateReplayed == stepping /\ Validate

\* A step of the invocation whose turn it is.
ReplayStep ==
    \/ LoopExitReplayed
    \/ TooFewActiveReplayed
    \/ SampleReplayed
    \/ SampleRaisesReplayed
    \/ SolveSdpReplayed
    \/ SdpFailedReplayed
    \/ SdpReturnedReplayed
    \/ RankCheckFailedReplayed
    \/ OrthogonalityResetReplayed
    \/ AcceptReplayed
    \/ ValidateReplayed

ReplayNext ==
    \/ CallFirst
    \/ Draw
    \/ Switch
    \/ CallAgain
    \/ ReplayStep

ReplaySpec == Init /\ [][ReplayNext]_vars

(***************************************************************************)
(* Properties.                                                             *)
(***************************************************************************)
\* C1: every invocation of globustvp ends with a result: at most max_iter
\* iterations run, an iteration makes at most one solve_sdp call, the
\* FAILED result is returned only once the budget is exceeded, and no
\* exception leaves globustvp.
C1_TerminatesWithResult ==
    /\ pc # "raised"
    /\ iter_count <= max_iter + 1
    /\ solves <= 1
    /\ (pc = "returned" /\ ~ret.success) => iter_count = max_iter + 1

\* C2: with fewer than 3 lines globustvp never succeeds: no VP is stored,
\* nothing is sampled or solved, each iteration can only reset or exhaust
\* the budget, and the return is the FAILED one after max_iter iterations.
C2_FewLinesFail ==
    (host # "none" /\ param.line_num < 3) =>
        /\ pc \in {"loop", "returned"}
        /\ est_vps = <<>>
        /\ sample_ids = {}
        /\ solve_result = NoSolve
        /\ solves = 0
        /\ iter_count <= max_iter + 1
        /\ pc = "returned" => (~ret.success /\ iter_count = max_iter + 1)
        /\ pc = "loop" => ENABLED (LoopExit \/ TooFewActive)

\* A call on 2 lines has used its whole budget and returned FAILED.
C2_Witness ==
    /\ host = "direct"
    /\ param.line_num = 2
    /\ param.iteration = MaxIter
    /\ pc = "returned"
    /\ ~ret.success
    /\ iter_count = MaxIter + 1

\* C3: there are always as many correspondence vectors as accepted VPs,
\* and a success returns exactly 3 of each: the ones the search holds.
C3_ThreeAndThree ==
    /\ Len(est_corrs) = Len(est_vps)
    /\ Len(est_vps) <= vanishing_point_num
    /\ (pc = "returned" /\ ret.success) =>
           /\ Len(ret.vps) = 3
           /\ Len(ret.corrs) = 3
           /\ ret.vps = est_vps
           /\ ret.corrs = est_corrs

\* A success after more iterations than the three accepts need.
C3_Witness == pc = "returned" /\ ret.success /\ iter_count > vanishing_point_num

\* C4: the triad returned on success is a proper rotation: V V^T is the
\* identity within np.allclose's tolerance and det(V) is +1 (within 1%).
C4_ProperRotation ==
    (pc = "returned" /\ ret.success) =>
        /\ allclose_eye(ret.vps)
        /\ Abs(Det2(ret.vps) - SCALE2) <= SCALE2 \div 100

\* A success whose first row was negated by the sign correction (the VPs
\* were accepted in a left-handed order).
C4_Witness == pc = "returned" /\ ret.success /\ ret.vps[1][2] < 0

\* Every pair of accepted VPs has a dot product of magnitude at most tol
\* (at SCALE * SCALE).
pair_dots_within(tol) ==
    \A i \in 1 .. Len(est_vps) : \A j \in 1 .. Len(est_vps) :
        i < j => Abs(Dot(est_vps[i], est_vps[j])) <= tol

\* C5 as stated: at every point of a search the dot product of every pair
\* of accepted VPs is at most c in magnitude.
C5_PairwiseWithinC == pair_dots_within(param.c * SCALE)

\* C5, amended: at every point of a search the dot product of every pair
\* of accepted VPs is at most max(c, 1e-3) in magnitude.
C5_PairwiseWithinMax == pair_dots_within(Max2(param.c * SCALE, Ortho3Tol))

\* Three VPs are accepted and the third was kept although it is not
\* exactly orthogonal to the first.
C5_Witness ==
    /\ pc = "validate"
    /\ Dot(est_vps[1], est_vps[3]) # 0
    /\ Abs(Dot(est_vps[1], est_vps[3])) <= Ortho3Tol

\* C6: the reverse map is the ascending list of the indices whose mask
\* entry is true, so reverse_pool[k] is the global index of row k of the
\* active-line array.
C6_ReverseIsWhere ==
    /\ reverse_pool = Where(line_id_pool)
    /\ Bind(masked(para_lines, line_id_pool),
            LAMBDA active_lines :
                \A k \in DOMAIN reverse_pool : active_lines[k] = para_lines[reverse_pool[k]])

\* Two VPs are accepted, lines are still active and line 0 is not.
C6_Witness ==
    /\ pc = "loop"
    /\ Len(est_vps) = 2
    /\ ArrLen(reverse_pool) > 0
    /\ reverse_pool[0] # 0

\* C7: no line is marked by two of the stored correspondence vectors, and
\* the worker's association of a line is the one VP that marks it, or -1
\* when none does.
C7_Disjoint ==
    /\ \A i \in 1 .. Len(est_corrs) : \A j \in 1 .. Len(est_corrs) :
           i < j => \A l \in DOMAIN est_corrs[i] :
                       ~(est_corrs[i][l] = 1 /\ est_corrs[j][l] = 1)
    /\ "associations" \in DOMAIN wret =>
           \A l \in DOMAIN wret.associations : \A k \in 1 .. Len(ret.corrs) :
               (ret.corrs[k][l] = 1) <=> (wret.associations[l] = k - 1)

\* The worker reported a success with lines associated to the first and
\* to the last VP.
C7_Witness ==
    /\ "associations" \in DOMAIN wret
    /\ \E l \in DOMAIN wret.associations : wret.associations[l] = 0
    /\ \E l \in DOMAIN wret.associations : wret.associations[l] = 2

\* What a solve_sdp call did agrees with the chain of backends: the
\* backends attempted are a prefix of SCS, CLARABEL (of CLARABEL alone when
\* it is requested), only the last attempted one can have ended optimal or
\* optimal_inaccurate, the call returns a solution exactly when it has,
\* and it gives up only after the whole chain.
solve_follows_chain ==
    pc = "solved" =>
        \E chain \in {IF param.solver = "CLARABEL" THEN <<"CLARABEL">>
                       ELSE <<"SCS", "CLARABEL">>} :
        \E n \in {Len(solve_result.attempted)} :
            /\ n >= 1
            /\ n <= Len(chain)
            /\ solve_result.attempted = SubSeq(chain, 1, n)
            /\ \A i \in 1 .. n - 1 :
                   solve_result.statuses[i] \notin {"optimal", "optimal_inaccurate"}
            /\ solve_result.success <=>
                   solve_result.statuses[n] \in {"optimal", "optimal_inaccurate"}
            /\ ~solve_result.success => n = Len(chain)

\* A solve_sdp call that raised is followed by the next iteration, with
\* the search state and the iteration count as they were.
failed_solve_resamples ==
    (pc = "solved" /\ ~solve_result.success) =>
        /\ pc' = "loop"
        /\ UNCHANGED <<search_vars, iter_count, ret>>

C9_AlwaysJson ==
    /\ wpc = "done" => wret # [status |-> "none"]
    /\ (wpc = "raised" \/ (wpc = "searching" /\ pc = "raised")) => ENABLED Caught
    /\ (wpc = "done" /\ host = "worker" /\ pc = "raised") =>
           wret = [status |-> "error", message |-> "str(e)"]
    /\ (wpc = "done" /\ host = "worker" /\ pc = "returned" /\ ~ret.success) =>
           wret = [status |-> "failed", error |-> "Solver did not converge."]
    /\ DOMAIN wret \cap {"lines", "vps_3d", "vps_2d", "associations"} # {} =>
           /\ host = "worker"
           /\ pc = "returned"
           /\ ret.success
           /\ DOMAIN wret = {"status", "lines", "vps_3d", "vps_2d", "associations"}
           /\ wret.status = "success"
           /\ wret.vps_3d = ret.vps
           /\ wret.lines = lines_2D

\* An exception was caught and reported.
C9_Witness == wpc = "done" /\ wret = [status |-> "error", message |-> "str(e)"]

\* C10: with fewer than min_lines segments left the worker returns the
\* error at once: globustvp is not invoked and nothing is solved.
C10_NoSearch ==
    /\ wret = [error |-> "Not enough lines detected."] =>
           /\ Len(lines_2D) < min_lines
           /\ host = "none"
           /\ pc = "idle"
           /\ iter_count = 0
           /\ solves = 0
           /\ solve_result = NoSolve
    /\ host = "worker" => Len(lines_2D) >= min_lines
    /\ (wpc = "filtered" /\ Len(lines_2D) < min_lines) =>
           (ENABLED NotEnoughLines /\ ~ENABLED Search)

\* The error was returned for min_lines - 1 lines.
C10_Witness ==
    /\ wret = [error |-> "Not enough lines detected."]
    /\ Len(lines_2D) = min_lines - 1

\* The cross product of the homogeneous endpoints of a normalized segment
\* is the zero vector.
zero_cross(l) == CrossFx(<<l[1], l[2], SCALE>>, <<l[3], l[4], SCALE>>) = <<0, 0, 0>>

\* C11: for a segment whose homogeneous endpoints have a zero cross product
\* the plane-normal computation fails: no normal array is produced for it
\* and none is passed on to the search.
C11_DegenerateFails ==
    (\E i \in DOMAIN all_2D_lines : zero_cross(all_2D_lines[i])) =>
        (ArrLen(para_lines) = 0 /\ host = "none")

\* C12: generate_bin on N lines of one orientation, whatever the
\* orientation and whichever endpoint comes first, returns the indices
\* 0 .. N-1: all N lines are in the one dominant bin.
C12_OneBin == pc = "binned" => largest_bin_idxes = Arange(ArrLen(all_2D_lines))

\* The lines of the call that were drawn along d.
lines_along(d) == {l \in DOMAIN para_lines : drawn_along(para_lines[l], d)}

\* The lines a correspondence vector marks.
marked(corr) == {l \in DOMAIN corr : corr[l] = 1}

\* The scene has lines along each of the three directions and no others.
three_direction_scene ==
    /\ \A d \in GroundTruth : lines_along(d) # {}
    /\ \A l \in DOMAIN para_lines : \E d \in GroundTruth : l \in lines_along(d)

\* The correspondence vectors are the ground-truth assignment: vector k
\* marks lines of one direction d(k), a different one for each k, and all
\* those that were drawn along d(k) only.
matches_ground_truth(corrs) ==
    \E d \in [1 .. Len(corrs) -> GroundTruth] :
        /\ \A j, k \in 1 .. Len(corrs) : j # k => d[j] # d[k]
        /\ \A k \in 1 .. Len(corrs) :
               /\ marked(corrs[k]) \subseteq lines_along(d[k])
               /\ \A l \in lines_along(d[k]) :
                      (\A e \in GroundTruth \ {d[k]} : l \notin lines_along(e))
                          => l \in marked(corrs[k])

\* C13: on a scene of three orthogonal directions without noise, with a
\* solver that returns the optimum and a budget of at least three
\* iterations, globustvp does not return FAILED: what it returns is the
\* success with the ground-truth correspondences.
C13_RecoversScene ==
    (/\ host # "none"
     /\ three_direction_scene
     /\ max_iter >= vanishing_point_num
     /\ pc = "returned")
        => (ret.success /\ Len(ret.corrs) = 3 /\ matches_ground_truth(ret.corrs))
\* C14: for any URL, the fetch candidates are the direct URL itself, then
\* the proxy URLs (the configured proxy first, then the default proxies in
\* order) without a repeat, and the first fetch of a download is for the
\* direct URL.
C14_DirectFirst ==
    \A i \in 1 .. Len(calls) :
        Len(calls[i].fetched) > 0 =>
            /\ calls[i].candidates = add_origins(proxy_sources, 1, strip(calls[i].url),
                                                 <<strip(calls[i].url)>>)
            /\ calls[i].fetched[1] = strip(calls[i].url)

\* C15: micropip.install is invoked at most once, however the analyze_url
\* calls interleave.
C15_InstalledOnce == installs <= 1

\* The tasks, queued entries, unsettled calls and responses that come from
\* request event n.
places(n) ==
    Cardinality({k \in 1 .. Len(tasks) : tasks[k].request.number = n})
    + Cardinality({k \in 1 .. Len(pending_requests) :
                      pending_requests[k].request.number = n})
    + Cardinality({k \in 1 .. Len(calls) :
                      calls[k].request.number = n /\ calls[k].pc # "settled"})
    + Cardinality({k \in 1 .. Len(responses) : responses[k].number = n})

responses_to(n) == {k \in 1 .. Len(responses) : responses[k].number = n}

\* The entries of a list that come from queued requests are in the order
\* of arrival.
queued_in_order(list) ==
    \A j, k \in 1 .. Len(list) :
        (j < k /\ list[j].request.queued /\ list[k].request.queued)
            => list[j].request.number < list[k].request.number

\* The _run_request tasks that have not run yet.
runs_ready == SelectSeq(tasks, LAMBDA task : task.kind = "run")

arrival_order(list) ==
    \A j, k \in 1 .. Len(list) :
        j < k => list[j].request.number < list[k].request.number

\* Nothing of the bridge or of the worker is left to run.
quiescent ==
    /\ tasks = <<>>
    /\ bootstrap = "done"
    /\ \A k \in 1 .. Len(calls) : calls[k].pc = "settled"

accepted(payload) == Len(cleaned(payload.id)) > 0 /\ Len(cleaned(payload.url)) > 0

non_empty(payload) ==
    /\ payload.id # None /\ Len(payload.id[1]) > 0
    /\ payload.url # None /\ Len(payload.url[1]) > 0

\* C16 as stated: every request event with a non-empty id and url is in
\* exactly one place on its way to a response, has exactly one response
\* once nothing is left to run, and the response carries the id of the
\* event.
C16_SameId ==
    \A n \in 1 .. Len(requests) :
        non_empty(requests[n]) =>
            /\ places(n) = 1
            /\ quiescent => Cardinality(responses_to(n)) = 1
            /\ \A k \in responses_to(n) : responses[k].id = requests[n].id[1]

\* C16, amended: every request event whose id and url are non-empty after
\* stripping is in exactly one place on its way to a response (queued
\* only while the worker is not there, queued requests dispatched in the
\* order of arrival), has exactly one response once nothing is left to
\* run, and the response carries the stripped id; any other request
\* event is dropped.
C16_ExactlyOnce ==
    /\ \A n \in 1 .. Len(requests) :
          /\ places(n) = IF accepted(requests[n]) THEN 1 ELSE 0
          /\ (quiescent /\ accepted(requests[n])) => Cardinality(responses_to(n)) = 1
          /\ \A k \in responses_to(n) : responses[k].id = cleaned(requests[n].id)
    /\ pending_requests # <<>> => ~worker
    /\ arrival_order(pending_requests)
    /\ queued_in_order(runs_ready)
    /\ queued_in_order(calls)

\* Two requests were queued before the worker was there, one of them with
\* blanks around its id, and both have their response.
C16_Witness ==
    /\ quiescent
    /\ Len(responses) = 2
    /\ \A k \in 1 .. 2 : responses[k].queued
    /\ \E k \in 1 .. 2 : responses[k].id = <<"b">>

\* An iteration that ends with a rejected sample: the sample is drawn and
\* the counter advances, the solver runs, and the sample is abandoned
\* after the solver or the rank check failed; none of the steps touches
\* the VPs, the correspondences, the mask or the reverse map.
rejection_keeps_state ==
    /\ (pc = "loop" /\ pc' = "solve") =>
           (iter_count' = iter_count + 1 /\ UNCHANGED search_vars)
    /\ pc \in {"solve", "solved"} => UNCHANGED <<search_vars, iter_count>>
    /\ (SdpFailed \/ RankCheckFailed) =>
           (pc' = "loop" /\ UNCHANGED <<search_vars, iter_count, ret>>)

\* C17: a sample rejected by a solver failure or by the rank check leaves
\* the accepted VPs, the correspondences, the active mask and the reverse
\* map as they were; only the iteration counter has advanced.
C17_RejectionKeepsState == [][rejection_keeps_state]_vars

\* After two iterations on three lines or more one VP is there: one of
\* the two samples was accepted and the other rejected.
C17_Witness ==
    /\ pc = "loop"
    /\ iter_count = 2
    /\ param.line_num >= min_active
    /\ Len(est_vps) = 1
    /\ Len(est_corrs) = 1

\* The search state is the one of a search that starts.
started_again ==
    /\ est_vps' = <<>>
    /\ est_corrs' = <<>>
    /\ line_id_pool' = Ones(param.line_num)
    /\ reverse_pool' = Arange(param.line_num)

\* What the step after the solver can do to the VPs: with one VP stored it
\* leaves the search state (the rank check failed), starts the search
\* again, or appends a candidate that passes the orthogonality check
\* against VP1; with no or two VPs stored it never starts again.
orthogonality_step ==
    pc = "check" =>
        /\ OrthogonalityReset => (Len(est_vps) = 1 /\ started_again /\ pc' = "loop")
        /\ Len(est_vps) = 1 =>
               \/ UNCHANGED search_vars
               \/ started_again /\ pc' = "loop"
               \/ /\ Len(est_vps') = 2
                  /\ est_vps'[1] = est_vps[1]
                  /\ ~orthogonality_fails(est_vps[1], est_vps'[2], param.c)
        /\ Len(est_vps) # 1 =>
               \/ UNCHANGED search_vars
               \/ /\ Len(est_vps') = Len(est_vps) + 1
                  /\ SubSeq(est_vps', 1, Len(est_vps)) = est_vps

\* C18: with exactly one VP stored, a candidate that fails the
\* orthogonality check against VP1 is not recorded and the search starts
\* again: no VP, no correspondence, every line active, identity reverse
\* map; the check is made for the second VP only.
C18_OrthogonalityResets == [][orthogonality_step]_vars

\* One VP is stored, lines were taken from the pool, and a candidate that
\* passed the rank check fails the orthogonality check against VP1.
C18_Witness ==
    /\ pc = "check"
    /\ Len(est_vps) = 1
    /\ \E i \in DOMAIN line_id_pool : ~line_id_pool[i]
    /\ \E vp \in recovered : orthogonality_fails(est_vps[1], vp, param.c)

\* The active lines whose absolute dot product with vp is below c.
inliers_by(vp) ==
    {i \in DOMAIN line_id_pool :
        line_id_pool[i] /\ Abs(Dot(para_lines[i], vp)) < param.c * SCALE}

\* The third VP for a candidate: the candidate when both its dot products
\* with VP1 and VP2 are at most 1e-3, else the renormalized cross product
\* of VP1 and VP2.
third_for(vp) ==
    IF /\ Abs(Dot(est_vps[1], vp)) <= Ortho3Tol
       /\ Abs(Dot(est_vps[2], vp)) <= Ortho3Tol
    THEN vp
    ELSE Normalized(CrossFx(est_vps[1], est_vps[2]))

\* With two VPs stored, every candidate that passes the rank check can be
\* accepted, as the vector third_for gives.
third_accepted ==
    (pc = "check" /\ Len(est_vps) = 2) =>
        \A vp \in recovered : ENABLED (Accept /\ est_vps'[3] = third_for(vp))

\* With two VPs stored, the step after the solver leaves the search state
\* (the rank check failed) or appends the third VP and goes on to the
\* validation of the triad; the correspondence is the one of the vector
\* that was appended.
third_step ==
    (pc = "check" /\ Len(est_vps) = 2) =>
        \/ UNCHANGED search_vars /\ pc' = "loop"
        \/ /\ pc' = "validate"
           /\ Len(est_vps') = 3
           /\ SubSeq(est_vps', 1, 2) = est_vps
           /\ \E vp \in recovered : est_vps'[3] = third_for(vp)
           /\ Len(est_corrs') = 3
           /\ marked(est_corrs'[3]) = inliers_by(est_vps'[3])

\* C19: with two VPs stored, a candidate that passed the rank check is
\* always accepted as the third VP, without a reset or a new sample
\* before the validation of the triad: unchanged when both its dot
\* products with VP1 and VP2 are at most 1e-3 in magnitude, else replaced
\* by the renormalized cross product of VP1 and VP2; the inliers are
\* those of the vector that is stored.
C19_ThirdAccepted == []third_accepted /\ [][third_step]_vars

\* The third VP that was appended is none of the candidates: it is the
\* cross product of the first two.
C19_Witness ==
    /\ pc = "validate"
    /\ Len(est_vps) = 3
    /\ est_vps[3] \notin recovered
    /\ est_vps[3] = Normalized(CrossFx(est_vps[1], est_vps[2]))

\* A step that appends a VP: the correspondence appended with it has an
\* entry per line of the input, it marks the lines that were active
\* before the step and have an absolute dot product with the VP below c,
\* and no marked line is active after the step.
acceptance_marks_inliers ==
    (pc = "check" /\ Len(est_vps') = Len(est_vps) + 1) =>
        /\ Len(est_corrs') = Len(est_vps')
        /\ SubSeq(est_corrs', 1, Len(est_corrs)) = est_corrs
        /\ DOMAIN est_corrs'[Len(est_corrs')] = 0 .. param.line_num - 1
        /\ marked(est_corrs'[Len(est_corrs')]) = inliers_by(est_vps'[Len(est_vps')])
        /\ \A i \in marked(est_corrs'[Len(est_corrs')]) :
               line_id_pool[i] /\ ~line_id_pool'[i]

\* C20: the correspondence vector of an accepted VP has length line_num
\* and marks, by their global index, exactly the lines that were active
\* before the acceptance and have an absolute dot product with the VP
\* below c; no line inactive before is marked and no marked line is
\* active afterwards.
C20_MarksActiveInliers == [][acceptance_marks_inliers]_vars

\* The second VP was accepted from a pool that had lost lines, and it
\* marks lines of its own.
C20_Witness ==
    /\ pc = "loop"
    /\ Len(est_vps) = 2
    /\ marked(est_corrs[1]) # {}
    /\ marked(est_corrs[2]) # {}
    /\ \E i \in marked(est_corrs[2]) : \E j \in marked(est_corrs[1]) : j < i

\* The lines a mask has active.
active(mask) == {i \in DOMAIN mask : mask[i]}

\* The supporters of the rotation angle a about the VP d0.
supporters(d0, a) ==
    Bind(Normalized(d0), LAMBDA d :
        Bind(null_space_n1(d), LAMBDA n1_base :
            Bind(line_norms(para_lines), LAMBDA norms :
                peak_inliers(d, n1_base, para_lines, norms, a))))

\* The set is the set of supporters of an angle in 0 .. 89 whose
\* supporter count is the largest.
pruner_output(d0, set) ==
    Bind(Tab([a \in 0 .. num_bins - 1 |-> supporters(d0, a)]), LAMBDA by_angle :
        \E a \in DOMAIN by_angle :
            /\ by_angle[a] = set
            /\ \A b \in DOMAIN by_angle :
                   Cardinality(by_angle[b]) <= Cardinality(set))

\* A step that appends a VP: the pool after it is the pruner's output
\* without the inliers of the VP when the VP is the first and the fast
\* path is enabled, and the pool before it without the inliers of the VP
\* in every other case.
acceptance_prunes_once ==
    (pc = "check" /\ Len(est_vps') = Len(est_vps) + 1) =>
        IF param.is_fast_solver /\ Len(est_vps) = 0
        THEN \E peak \in {Elems(find_peak_intervals(est_vps'[1], para_lines))} :
                /\ pruner_output(est_vps'[1], peak)
                /\ active(line_id_pool') = peak \ marked(est_corrs'[1])
        ELSE active(line_id_pool') =
                 active(line_id_pool) \ marked(est_corrs'[Len(est_corrs')])

\* C21: on the fast path the pool after the acceptance of VP1 is the
\* pruner's output (the supporters of the angle in 0 .. 89 with the
\* largest supporter count) without the inliers of VP1; after VP2 and
\* VP3, and without the fast path, the pool only loses the inliers of the
\* accepted VP.
C21_PrunedAfterFirst == [][acceptance_prunes_once]_vars

\* VP1 was accepted on the fast path and the pruner took a line from the
\* pool that is no inlier of VP1.
C21_Witness ==
    /\ pc = "loop"
    /\ param.is_fast_solver
    /\ Len(est_vps) = 1
    /\ \E i \in DOMAIN line_id_pool : ~line_id_pool[i] /\ i \notin marked(est_corrs[1])

\* An iteration that starts within the budget with fewer than 3 active
\* lines: it returns the success result when 3 VPs are stored, and else
\* starts the search again and ends, no sample drawn and no solver run.
few_active_step ==
    (pc = "loop" /\ iter_count + 1 <= max_iter
        /\ Cardinality(active(line_id_pool)) < 3) =>
        /\ iter_count' = iter_count + 1
        /\ UNCHANGED <<sample_ids, C_shape, solve_result>>
        /\ IF Len(est_vps) = 3
           THEN /\ pc' = "returned"
                /\ ret' = [success |-> TRUE, vps |-> est_vps, corrs |-> est_corrs]
           ELSE /\ started_again
                /\ pc' = "loop"
                /\ ret' = ret

\* C22: an iteration that starts with fewer than 3 active lines returns
\* success when exactly 3 VPs are stored; otherwise the VPs and the
\* correspondences are cleared, every line is active again and the
\* iteration ends without a sample or a solve.
C22_FewActiveResets == [][few_active_step]_vars

\* An iteration starts with VPs stored and fewer than 3 active lines.
C22_Witness ==
    /\ pc = "loop"
    /\ iter_count + 1 <= max_iter
    /\ Len(est_vps) >= 1
    /\ Cardinality(active(line_id_pool)) < 3

\* The lines of the sample: active_lines[sample_ids], by their global
\* index.
sampled_lines == {reverse_pool[k] : k \in sample_ids \cap DOMAIN reverse_pool}

\* The first VP is searched on the fast path and the cluster has at least
\* sample_line_num active members.
cluster_case ==
    /\ Len(est_vps) = 0
    /\ param.is_fast_solver
    /\ Cardinality(Elems(largest_bin_idxes) \cap active(line_id_pool))
           >= param.sample_line_num

\* The sample the cost matrices were built from: each of its indices is
\* the index of an active line, the matrices have a block per line of it,
\* and in the cluster case its lines are lines of the cluster.
sample_is_sound ==
    pc = "solve" =>
        /\ sample_ids \subseteq 0 .. Cardinality(active(line_id_pool)) - 1
        /\ sampled_lines \subseteq active(line_id_pool)
        /\ C_shape = 3 * Cardinality(sampled_lines) + 3
        /\ cluster_case => sampled_lines \subseteq Elems(largest_bin_idxes)

\* Outside the cluster case every set of active lines of the size drawn
\* can be the sample.
whole_pool_drawn ==
    (pc = "loop" /\ iter_count + 1 <= max_iter /\ ~cluster_case
        /\ Cardinality(active(line_id_pool)) >= 3) =>
        \A smp \in choice(0 .. Cardinality(active(line_id_pool)) - 1, draw_size) :
            ENABLED (Sample /\ sample_ids' = smp)

\* C23: a sample handed to the SDP builder is made of pairwise distinct
\* lines, all of them active when it is drawn; it is drawn within the
\* histogram cluster when the first VP is searched on the fast path and
\* the cluster has at least sample_line_num active members, and from the
\* whole active pool in every other case.
C23_SampleFromActive == sample_is_sound /\ whole_pool_drawn

\* The sample was drawn within a cluster that leaves out an active line.
C23_Witness ==
    /\ pc = "solve"
    /\ cluster_case
    /\ sampled_lines # {}
    /\ \E i \in active(line_id_pool) : i \notin Elems(largest_bin_idxes)

\* An iteration that starts within the budget with 3 active lines or
\* more draws sample_line_num lines and builds the cost matrices for them.
full_sample_step ==
    (pc = "loop" /\ iter_count + 1 <= max_iter
        /\ Cardinality(active(line_id_pool)) >= 3) =>
        /\ pc' = "solve"
        /\ Cardinality(sample_ids') = param.sample_line_num
        /\ C_shape' = 3 * (param.sample_line_num + 1)

\* C24: whenever 3 lines or more are active, the iteration draws a sample
\* of exactly sample_line_num lines and builds cost matrices of size
\* 3(m+1) x 3(m+1) with m = sample_line_num, for the first VP and for the
\* later ones, and does not raise.
C24_FullSample == [][full_sample_step]_vars

\* bin_ids[i] for every line i of the input.
bin_of_line ==
    Tab([i \in DOMAIN all_2D_lines |-> bin_id(all_2D_lines[i], param.histogram_len)])

\* The lines that bins has in bin b.
lines_in_bin(bins, b) == {i \in DOMAIN bins : bins[i] = b}

\* The sum of the counts of the bins 0 .. b.
RECURSIVE counts_upto(_, _)
counts_upto(bins, b) ==
    IF b < 0 THEN 0 ELSE Cardinality(lines_in_bin(bins, b)) + counts_upto(bins, b - 1)

\* The list is the list of the lines of a bin whose count is the largest.
dominant(bins, list) ==
    \E b \in 0 .. param.histogram_len - 1 :
        /\ list = SortedArr(lines_in_bin(bins, b))
        /\ \A o \in Elems(bins) :
               Cardinality(lines_in_bin(bins, o)) <= Cardinality(lines_in_bin(bins, b))

\* C25: generate_bin puts every line in exactly one bin 0 .. H-1, the
\* counts adding up to N, and returns the indices of the lines of a bin
\* whose count is the largest of all bins, in ascending order; for no
\* line it returns the empty list.
C25_DominantBin ==
    pc = "binned" =>
        \E bins \in {bin_of_line} :
            /\ \A i \in DOMAIN bins : bins[i] \in 0 .. param.histogram_len - 1
            /\ counts_upto(bins, param.histogram_len - 1) = ArrLen(all_2D_lines)
            /\ dominant(bins, largest_bin_idxes)
            /\ ArrLen(all_2D_lines) = 0 => largest_bin_idxes = EmptyArr

\* Of three lines two are in the dominant bin, the first is not.
C25_Witness ==
    /\ pc = "binned"
    /\ ArrLen(all_2D_lines) = 3
    /\ largest_bin_idxes = SortedArr({1, 2})

\* The invocation that follows has yet to take the step, and can, or stands
\* where the one that led stands, in the same state.
same_states ==
    replay.turn = "follow" =>
        \/ snapshot = replay.other
        \/ snapshot = replay.from /\ ~in_step /\ ENABLED ReplayStep

\* An invocation made where two others ended stands where they entered.
same_entry == replay.turn = "again" => snapshot = replay.entry

no_vp_start == pc = "loop" /\ Len(est_vps) = 0

\* C27: whenever an iteration starts with no VP accepted, at first and
\* after every reset, every line is active and the reverse map is the
\* identity, so the lines of the cluster that are candidates are at their
\* own global indices in the array of active lines.
C27_IdentityAtStart ==
    no_vp_start =>
        /\ line_id_pool = Ones(param.line_num)
        /\ active(line_id_pool) = 0 .. ArrLen(para_lines) - 1
        /\ reverse_pool = Arange(param.line_num)
        /\ \E active_lines \in {masked(para_lines, line_id_pool)} :
              \A idx \in candidates :
                  /\ idx \in DOMAIN active_lines
                  /\ active_lines[idx] = para_lines[idx]
                  /\ reverse_pool[idx] = idx

\* A later iteration starts with no VP accepted and draws from the cluster.
C27_Witness == no_vp_start /\ iter_count >= 2 /\ iter_count + 1 <= max_iter /\ use_cluster

\* An iteration starts with fewer than vanishing_point_num VPs accepted.
start_count == pc = "loop" => Len(est_vps) \in 0 .. vanishing_point_num - 1

\* With the third VP accepted the triad is validated, and the validation
\* ends in a success return or in a full reset.
third_ends ==
    /\ pc = "check" /\ Len(est_vps') = vanishing_point_num => pc' = "validate"
    /\ pc = "validate" /\ pc' # pc =>
          \/ pc' = "returned" /\ ret'.success
          \/ /\ pc' = "loop"
             /\ est_vps' = <<>>
             /\ est_corrs' = <<>>
             /\ line_id_pool' = Ones(param.line_num)
             /\ reverse_pool' = Arange(param.line_num)

\* Success is returned from the validation of the triad only.
success_from_validation ==
    pc # "returned" /\ pc' = "returned" /\ ret'.success => pc = "validate"

\* An iteration that starts with two VPs and fewer than min_active lines
\* active resets the search.
few_after_two ==
    /\ pc = "loop"
    /\ Len(est_vps) = 2
    /\ active_size < min_active
    /\ iter_count' = iter_count + 1
    /\ iter_count' <= max_iter
    => /\ pc' = "loop"
       /\ est_vps' = <<>>
       /\ est_corrs' = <<>>
       /\ line_id_pool' = Ones(param.line_num)
       /\ reverse_pool' = Arange(param.line_num)

\* C28: every iteration of globustvp starts with 0, 1 or 2 VPs accepted;
\* accepting the third VP ends the iteration in a success return or a full
\* reset, so success is returned from the validation of the triad only and
\* never from the branch of fewer than 3 active lines; an iteration that
\* starts with two VPs and fewer than 3 active lines resets the search.
C28_AtMostTwo ==
    []start_count /\ [][third_ends /\ success_from_validation /\ few_after_two]_vars

\* An iteration is about to start with two VPs and fewer than 3 lines active.
C28_Witness ==
    /\ pc = "loop"
    /\ Len(est_vps) = 2
    /\ active_size < min_active
    /\ iter_count + 1 <= max_iter

\* The candidates fetched by call b are the first of its list, in order.
tried_in_order(b) == b.fetched = SubSeq(b.candidates, 1, Len(b.fetched))

\* A step of call a to b that fetches a candidate after the first fetches
\* the next of the list and records one reason for the one before.
one_reason_each(a, b) ==
    Len(b.fetched) > Len(a.fetched) /\ Len(a.fetched) > 0 =>
        /\ a.pc \in {"fetching", "reading"}
        /\ Len(b.fetched) = Len(a.fetched) + 1
        /\ Len(b.errors) = Len(a.errors) + 1
        /\ Len(b.errors) = Len(b.fetched) - 1

\* _download_html raises from a to b only after every candidate was fetched
\* and failed, with one reason for each.
raises_after_all(a, b) ==
    a.pc \in {"fetching", "reading"} /\ b.pc = "returned" /\ b.errors # a.errors =>
        /\ "error" \in DOMAIN b.result
        /\ b.fetched = b.candidates
        /\ Len(b.errors) = Len(b.candidates)

\* _download_html returns the body from a to b: no candidate after the one
\* that was read is fetched, and each one before it failed.
body_returned(a, b) ==
    a.pc = "reading" /\ b.pc = "returned" /\ b.errors = a.errors =>
        /\ b.fetched = a.fetched
        /\ Len(b.errors) = Len(b.fetched) - 1

\* An ok response ends the loop over the candidates.
ok_ends(a, b) == a.pc = "reading" => b.fetched = a.fetched /\ b.errors = a.errors

\* An ok response ends the loop unless reading its body raises, which
\* leaves one reason and goes on to the next candidate.
ok_read_ends(a, b) ==
    a.pc = "reading" =>
        \/ b = a
        \/ b.pc = "returned" /\ b.fetched = a.fetched /\ b.errors = a.errors
        \/ /\ b.errors = Append(a.errors, "exception")
           /\ IF Len(a.fetched) < Len(a.candidates)
              THEN b.pc = "fetching" /\ Len(b.fetched) = Len(a.fetched) + 1
              ELSE b.pc = "returned" /\ "error" \in DOMAIN b.result

download_step(a, b) ==
    /\ tried_in_order(b)
    /\ one_reason_each(a, b)
    /\ raises_after_all(a, b)
    /\ body_returned(a, b)

\* C29 as stated: _download_html tries the candidates in list order, returns
\* the body of the first candidate whose response is ok without fetching
\* any later candidate, and raises only after every candidate has raised or
\* returned a response that is not ok, with one reason for each.
C29_FirstOk ==
    [][\A i \in 1 .. Len(calls) :
          download_step(calls[i], calls'[i]) /\ ok_ends(calls[i], calls'[i])]_vars

\* C29, amended: _download_html tries the candidates in list order and
\* returns the body of the first candidate whose response is ok and whose
\* body is read; a candidate whose fetch raises, whose response is not ok
\* or whose body cannot be read leaves one reason and the next is fetched;
\* it raises only after every candidate has failed so.
C29_FirstRead ==
    [][\A i \in 1 .. Len(calls) :
          download_step(calls[i], calls'[i]) /\ ok_read_ends(calls[i], calls'[i])]_vars

\* A call returned the dates of its second candidate after an exception
\* on the first, in the fetch or in the reading of the body, left a reason.
C29_Witness ==
    \E i \in 1 .. Len(calls) :
        /\ calls[i].pc = "returned"
        /\ "lastUpdate" \in DOMAIN calls[i].result
        /\ Len(calls[i].fetched) = 2
        /\ calls[i].errors = <<"exception">>

\* What analyze_url returned for call is a dict with a url, and either an
\* error and no date or both dates and no error; for a url that is empty
\* once stripped it is "Missing URL", and nothing was fetched.
failure_as_value(call) ==
    call.pc = "returned" =>
        /\ "url" \in DOMAIN call.result
        /\ Len(strip(call.url)) = 0 =>
               /\ "error" \in DOMAIN call.result
               /\ call.result.error = "Missing URL"
               /\ call.fetched = <<>>
        /\ "error" \in DOMAIN call.result =>
               {"lastUpdate", "originalDate"} \cap DOMAIN call.result = {}
        /\ "error" \notin DOMAIN call.result =>
               {"lastUpdate", "originalDate"} \subseteq DOMAIN call.result

\* C30: analyze_url reports every failure as a value and never raises: it
\* returns a dict with a url; for an empty or whitespace-only url the error
\* is "Missing URL" and nothing is fetched; when the installation of the
\* dependency, the download or the date parsing fails the dict has an error
\* and no date; on success it has both dates and no error.
C30_NeverRaises ==
    \A i \in 1 .. Len(calls) : calls[i].pc # "raised" /\ failure_as_value(calls[i])

====
